---------------------------- MODULE Spec2Model ----------------------------
(***************************************************************************)
(* Model of the website capture server (src/server_enhanced.py):           *)
(*   - the static tree walker WebsiteCapture.extract_html_elements,        *)
(*   - the request handlers capture_responsive and capture_single,         *)
(*   - the design-model mapper create_design_analysis.                     *)
(* CSS values and text are sequences of one-character strings, so that     *)
(* split(), strip(), float() and the regular expressions of the code are   *)
(* computed, not assumed.                                                  *)
(***************************************************************************)
EXTENDS Integers, Sequences, FiniteSets, TLC

VARIABLES
    \* one run of extract_real_website_data, after the page was fetched
    doc,             \* the parsed document, nodes in pre-order
    viewport_config, \* the viewport the capture is made for
    todo,            \* pending calls of extract_html_elements, <<node, depth>>
    elements,        \* the list the records are appended to
    result,          \* what extract_real_website_data returns
    fate,            \* (history) what the visit of each node did
    depthStop,       \* (history) some visit found depth > 8
    countStop,       \* (history) some visit found len(elements) > 30
    \* one request to a capture endpoint
    request,         \* the endpoint and the JSON body
    pc,              \* where the handler is
    idx,             \* capture_responsive: the next requested viewport
    results,         \* capture_responsive: the results dict, in insertion order
    response,        \* the status and body the handler returns
    fetchLog,        \* (history) the calls of requests.get and how they ended
    \* two captures served at the same time
    captures         \* for each capture, the locals of its call

walkVars == <<doc, viewport_config, todo, elements, result,
              fate, depthStop, countStop>>

httpVars == <<request, pc, idx, results, response, fetchLog>>

vars == <<walkVars, httpVars, captures>>

----------------------------------------------------------------------------
(* Bounds of the model *)

\* non-root nodes of an exhaustively enumerated small document
MaxNodes == 3
\* length of the chain of nested <div>s of a deep document
MaxChain == 10
\* sibling count of a wide document
MaxWide == 33

(* Program constants *)

\* src/server_enhanced.py:812  "if depth > 8 or len(elements) > 30"
MaxDepth == 8
MaxElements == 30

\* a str and an int, as values of a field that may hold either; the int is
\* kept by its decimal digits
Text(s)   == [type |-> "str", val |-> s]
Number(s) == [type |-> "int", val |-> s]

\* src/server_enhanced.py:27-31
VIEWPORTS ==
    [ desktop |-> [width |-> 1440, height |-> 900,  device |-> Text("Desktop")],
      tablet  |-> [width |-> 768,  height |-> 1024, device |-> Text("Tablet")],
      mobile  |-> [width |-> 375,  height |-> 667,  device |-> Text("Mobile")] ]

----------------------------------------------------------------------------
(* Character-level helpers: Python str methods on sequences of characters *)

Range(s) == { s[i] : i \in DOMAIN s }

IsSpace(c) == c \in {" ", "\t", "\n"}

RECURSIVE lstrip(_)
lstrip(s) == IF s # <<>> /\ IsSpace(Head(s)) THEN lstrip(Tail(s)) ELSE s

RECURSIVE rstrip(_)
rstrip(s) ==
    IF s # <<>> /\ IsSpace(s[Len(s)]) THEN rstrip(SubSeq(s, 1, Len(s) - 1)) ELSE s

\* str.strip()
strip(s) == rstrip(lstrip(s))

\* s[:n]
Prefix(s, n) == SubSeq(s, 1, IF Len(s) < n THEN Len(s) ELSE n)

----------------------------------------------------------------------------
(* Documents: what BeautifulSoup(html, 'html.parser') hands to the walker.  *)
(* A document is a sequence of nodes in pre-order; node 1 is the root the   *)
(* walker starts from (soup.body, or soup itself when there is no <body>).  *)
(*   name   : tag name; NoName for a NavigableString (Python None)          *)
(*   parent : index of the parent node, 0 for the root                      *)
(*   text   : the characters of a NavigableString, <<>> for a tag           *)
(*   style  : the inline style attribute as its list of <<property, value>> *)
(*            rules (what split(';') / split(':', 1) / strip() leave)       *)
(*   id     : the id attribute, "" when the tag has none                    *)

NoName == ""

Tag(name, parent, style) ==
    [name |-> name, parent |-> parent, text |-> <<>>, style |-> style,
     id |-> "", onclick |-> ""]

\* a tag with an id attribute
TagId(name, parent, id) ==
    [name |-> name, parent |-> parent, text |-> <<>>, style |-> <<>>,
     id |-> id, onclick |-> ""]

\* a tag with an onclick attribute
TagOnclick(name, parent, onclick) ==
    [name |-> name, parent |-> parent, text |-> <<>>, style |-> <<>>,
     id |-> "", onclick |-> onclick]

Str(text, parent) ==
    [name |-> NoName, parent |-> parent, text |-> text, style |-> <<>>,
     id |-> "", onclick |-> ""]

\* html.parser closes these at once: they never get children
void_tags == {"img", "hr", "br", "input", "meta", "link"}

IsTag(d, n) == d[n].name # NoName

\* element.children / element.contents, in document order
children(d, n) == { c \in DOMAIN d : d[c].parent = n }

\* the nodes of d in document order
Nodes(d) == [ i \in DOMAIN d |-> i ]

contents(d, n) == SelectSeq(Nodes(d), LAMBDA c : d[c].parent = n)

RECURSIVE IsAncestor(_, _, _)
\* a is a proper ancestor of n
IsAncestor(d, a, n) ==
    /\ d[n].parent # 0
    /\ \/ d[n].parent = a
       \/ IsAncestor(d, a, d[n].parent)

\* element.find('img'): the first <img> among the descendants, if any
find_img(d, n) == \E m \in DOMAIN d : d[m].name = "img" /\ IsAncestor(d, n, m)

RECURSIVE Depth(_, _)
Depth(d, n) == IF d[n].parent = 0 THEN 0 ELSE 1 + Depth(d, d[n].parent)


----------------------------------------------------------------------------
(* Style extraction *)

\* extract_computed_styles: the defaults of the visual dict (the keys the
\* mapper and the classifier read; the code seeds some forty more, none of
\* which is read again)
visual_defaults ==
    [ backgroundColor |-> <<"t","r","a","n","s","p","a","r","e","n","t">>,
      color           |-> <<"#","0","0","0","0","0","0">>,
      fontSize        |-> <<"1","6","p","x">>,
      fontFamily      |-> <<"i","n","h","e","r","i","t">>,
      fontWeight      |-> <<"n","o","r","m","a","l">>,
      fontStyle       |-> <<"n","o","r","m","a","l">>,
      textAlign       |-> <<"l","e","f","t">>,
      textDecoration  |-> <<"n","o","n","e">>,
      lineHeight      |-> <<"n","o","r","m","a","l">>,
      letterSpacing   |-> <<"n","o","r","m","a","l">>,
      border          |-> <<"n","o","n","e">>,
      borderTop       |-> <<"n","o","n","e">>,
      borderBottom    |-> <<"n","o","n","e">>,
      borderRadius    |-> <<"0","p","x">>,
      display         |-> <<"b","l","o","c","k">>,
      padding         |-> <<"0">>,
      paddingTop      |-> <<"0">>,
      paddingRight    |-> <<"0">>,
      paddingBottom   |-> <<"0">>,
      paddingLeft     |-> <<"0">>,
      opacity         |-> <<"1">>,
      boxShadow       |-> <<"n","o","n","e">>,
      visibility      |-> <<"v","i","s","i","b","l","e">>,
      zIndex          |-> <<"a","u","t","o">> ]

\* ''.join(word.capitalize() if i > 0 else word
\*         for i, word in enumerate(prop.split('-')))
camel_prop(prop) ==
    CASE prop = "background-color" -> "backgroundColor"
      [] prop = "font-size"        -> "fontSize"
      [] prop = "font-family"      -> "fontFamily"
      [] prop = "font-weight"      -> "fontWeight"
      [] prop = "font-style"       -> "fontStyle"
      [] prop = "text-align"       -> "textAlign"
      [] prop = "text-decoration"  -> "textDecoration"
      [] prop = "line-height"      -> "lineHeight"
      [] prop = "letter-spacing"   -> "letterSpacing"
      [] prop = "border-top"       -> "borderTop"
      [] prop = "border-bottom"    -> "borderBottom"
      [] prop = "border-radius"    -> "borderRadius"
      [] prop = "border-color"     -> "borderColor"
      [] prop = "padding-top"      -> "paddingTop"
      [] prop = "padding-right"    -> "paddingRight"
      [] prop = "padding-bottom"   -> "paddingBottom"
      [] prop = "padding-left"     -> "paddingLeft"
      [] prop = "box-shadow"       -> "boxShadow"
      [] prop = "z-index"          -> "zIndex"
      [] prop = "flex-direction"   -> "flexDirection"
      [] prop = "justify-content"  -> "justifyContent"
      [] prop = "align-items"      -> "alignItems"
      [] prop \in {"opacity", "border", "display", "visibility", "color",
                   "padding", "gap", "cursor"} -> prop

\* visual[camel_prop] = value, for a known key and for a new one alike
SetKey(f, k, v) == [ x \in DOMAIN f \cup {k} |-> IF x = k THEN v ELSE f[x] ]

RECURSIVE apply_rules(_, _)
\* the loop over style_rules: later rules overwrite earlier ones
apply_rules(visual, rules) ==
    IF rules = <<>> THEN visual
    ELSE apply_rules(SetKey(visual, camel_prop(rules[1][1]), rules[1][2]),
                     Tail(rules))

extract_computed_styles(d, n) == apply_rules(visual_defaults, d[n].style)

\* dict.get(key, default)
get(f, k, default) == IF k \in DOMAIN f THEN f[k] ELSE default

\* get_default_font_size: size_map.get(element.name, '16px')
get_default_font_size(name) ==
    CASE name = "h1"    -> <<"3","2","p","x">>
      [] name = "h2"    -> <<"2","8","p","x">>
      [] name = "h3"    -> <<"2","4","p","x">>
      [] name = "h4"    -> <<"2","0","p","x">>
      [] name = "h5"    -> <<"1","8","p","x">>
      [] name = "h6"    -> <<"1","6","p","x">>
      [] name = "small" -> <<"1","2","p","x">>
      [] OTHER          -> <<"1","6","p","x">>

\* the value of the last rule of a style attribute for prop, else default
last_rule(style, prop, default) ==
    LET values == SelectSeq(style, LAMBDA rule : rule[1] = prop) IN
    IF values = <<>> THEN default ELSE values[Len(values)][2]

\* get_default_font_family
get_default_font_family(name) ==
    IF name \in {"h1", "h2", "h3", "h4", "h5", "h6"}
    THEN <<"G","e","o","r","g","i","a",","," ","s","e","r","i","f">>
    ELSE IF name \in {"code", "pre"}
    THEN <<"C","o","u","r","i","e","r",","," ","m","o","n","o","s","p","a","c","e">>
    ELSE <<"A","r","i","a","l",","," ","s","a","n","s","-","s","e","r","i","f">>

\* get_default_font_weight
get_default_font_weight(name) ==
    IF name \in {"h1", "h2", "h3", "h4", "h5", "h6", "strong", "b"}
    THEN <<"7","0","0">> ELSE <<"4","0","0">>

\* extract_element_typography: the defaults of the tag, each overwritten by
\* every rule of the style attribute for it in turn (textAlign, color,
\* textDecoration and textTransform are left out: nothing reads them)
extract_element_typography(d, n) ==
    [ fontFamily |-> last_rule(d[n].style, "font-family",
                               get_default_font_family(d[n].name)),
      fontSize   |-> last_rule(d[n].style, "font-size",
                               get_default_font_size(d[n].name)),
      fontWeight |-> last_rule(d[n].style, "font-weight",
                               get_default_font_weight(d[n].name)),
      lineHeight |-> last_rule(d[n].style, "line-height", <<"1",".","5">>) ]

----------------------------------------------------------------------------
(* The static walker, WebsiteCapture.extract_html_elements *)

\* src/server_enhanced.py:897  "return text[:150] if text else ''"
TextCap == 150

skip_tags == {"script", "style", "meta", "link", "head", "noscript", "iframe"}

structural_tags ==
    {"div", "section", "article", "header", "footer", "main", "nav", "aside"}

RECURSIVE direct_text(_, _)
\* the loop of get_clean_text over element.contents: the stripped text of
\* each NavigableString child that has any, each followed by one space
\* (the children are taken by halves: the text is the same, the evaluation
\* is less deep)
direct_text(d, cs) ==
    IF cs = <<>> THEN <<>>
    ELSE IF Len(cs) = 1
    THEN LET c     == cs[1]
             clean == strip(d[c].text)
         IN  IF ~IsTag(d, c) /\ clean # <<>> THEN clean \o <<" ">> ELSE <<>>
    ELSE LET half == Len(cs) \div 2
         IN  direct_text(d, SubSeq(cs, 1, half))
               \o direct_text(d, SubSeq(cs, half + 1, Len(cs)))

get_clean_text(d, n) ==
    LET text == IF children(d, n) = {}
                THEN <<>>       \* get_text(strip=True) of a childless tag
                ELSE strip(direct_text(d, contents(d, n)))
    IN  Prefix(text, TextCap)

\* element.name.upper()
upper(name) ==
    CASE name = "div"        -> "DIV"
      [] name = "span"       -> "SPAN"
      [] name = "p"          -> "P"
      [] name = "h1"         -> "H1"
      [] name = "h2"         -> "H2"
      [] name = "small"      -> "SMALL"
      [] name = "hr"         -> "HR"
      [] name = "img"        -> "IMG"
      [] name = "input"      -> "INPUT"
      [] name = "a"          -> "A"
      [] name = "button"     -> "BUTTON"
      [] name = "title"      -> "TITLE"
      [] name = "section"    -> "SECTION"
      [] name = "body"       -> "BODY"
      [] name = "[document]" -> "[DOCUMENT]"
      [] name = "script"     -> "SCRIPT"
      [] name = "noscript"   -> "NOSCRIPT"
      [] name = "iframe"     -> "IFRAME"

\* extract_all_attributes: the attrs of the tag (the onclick attribute; id
\* and style are held by the record's id and visual)
extract_all_attributes(d, n) ==
    IF d[n].onclick = "" THEN <<>> ELSE [onclick |-> d[n].onclick]

\* a slip of line 903: the row is the node's place in the document, not the
\* number of records made so far
calculate_element_position_by_node(d, n, existing_elements, config) ==
    [x |-> 20, y |-> (n - 1) * 25, width |-> config.width - 100, height |-> 30]

calculate_element_position(d, n, existing_elements, config) ==
    LET name == d[n].name
        size == CASE name \in {"h1", "h2", "h3", "h4", "h5", "h6"} ->
                       <<config.width - 40, 40>>
                  [] name \in {"p", "div"} ->
                       <<config.width - 80, 60>>
                  [] name \in {"button", "input"} -> <<150, 35>>
                  [] name = "img" -> <<200, 150>>
                  [] OTHER -> <<config.width - 100, 30>>
    IN  [x |-> 20, y |-> Len(existing_elements) * 25,
         width |-> size[1], height |-> size[2]]

\* the element_data dict of extract_html_elements; node is not a field of
\* the code's record: it names the document node the record was made from
element_data(d, n, depth, existing_elements, config) ==
    [ tagName     |-> upper(d[n].name),
      id          |-> d[n].id,
      attributes  |-> extract_all_attributes(d, n),
      textContent |-> get_clean_text(d, n),
      position    |-> calculate_element_position(d, n, existing_elements,
                                                 config),
      visual      |-> extract_computed_styles(d, n),
      typography  |-> extract_element_typography(d, n),
      depth       |-> depth,
      hasChildren |-> children(d, n) # {},
      node        |-> n ]

\* a slip of line 812: "and" for "or"
budget_exceeded_and(depth, elems) ==
    depth > MaxDepth /\ Len(elems) > MaxElements

\* "if depth > 8 or len(elements) > 30"
budget_exceeded(depth, elems) == depth > MaxDepth \/ Len(elems) > MaxElements

\* "if element.name in skip_tags"
is_skip_tag(name) == name \in skip_tags

\* a slip of line 829: the structural tags are not exempted
is_empty_leaf_any_tag(d, n) ==
    /\ get_clean_text(d, n) = <<>>
    /\ ~find_img(d, n)
    /\ children(d, n) = {}

\* "if not text_content and element.name not in structural_tags and not
\*  element.find('img'): if len(list(element.children)) == 0: return"
is_empty_leaf(d, n) ==
    /\ get_clean_text(d, n) = <<>>
    /\ d[n].name \notin structural_tags
    /\ ~find_img(d, n)
    /\ children(d, n) = {}

\* a slip of line 866: the children taken last to first
child_calls_reversed(d, n, depth) ==
    [ i \in 1..Len(contents(d, n)) |->
        <<contents(d, n)[Len(contents(d, n)) + 1 - i], depth + 1>> ]

\* the recursive calls "for child in element.children": every child has a
\* name attribute (None for a NavigableString), so every child is visited
child_calls(d, n, depth) ==
    [ i \in 1..Len(contents(d, n)) |-> <<contents(d, n)[i], depth + 1>> ]

Walking == todo # <<>>
Walked  == todo = <<>> /\ doc # <<>>

\* what every visit does with the history variables
Visit(n, depth, what) ==
    /\ fate' = [fate EXCEPT ![n] = what]
    /\ depthStop' = (depthStop \/ depth > MaxDepth)
    /\ countStop' = (countStop \/ Len(elements) > MaxElements)
    /\ UNCHANGED <<doc, viewport_config, result, httpVars, captures>>

\* line 812-814: the budget check returns from this call
VisitBudget ==
    /\ Walking
    /\ LET n == todo[1][1]  depth == todo[1][2] IN
        /\ budget_exceeded(depth, elements)
        /\ todo' = Tail(todo)
        /\ elements' = elements
        /\ Visit(n, depth, "budget")

\* line 816-817: a NavigableString
VisitNotElement ==
    /\ Walking
    /\ LET n == todo[1][1]  depth == todo[1][2] IN
        /\ ~budget_exceeded(depth, elements)
        /\ ~IsTag(doc, n)
        /\ todo' = Tail(todo)
        /\ elements' = elements
        /\ Visit(n, depth, "string")

\* line 819-822
VisitSkipTag ==
    /\ Walking
    /\ LET n == todo[1][1]  depth == todo[1][2] IN
        /\ ~budget_exceeded(depth, elements)
        /\ IsTag(doc, n)
        /\ is_skip_tag(doc[n].name)
        /\ todo' = Tail(todo)
        /\ elements' = elements
        /\ Visit(n, depth, "skiptag")

\* line 824-832
VisitSkipEmpty ==
    /\ Walking
    /\ LET n == todo[1][1]  depth == todo[1][2] IN
        /\ ~budget_exceeded(depth, elements)
        /\ IsTag(doc, n)
        /\ ~is_skip_tag(doc[n].name)
        /\ is_empty_leaf(doc, n)
        /\ todo' = Tail(todo)
        /\ elements' = elements
        /\ Visit(n, depth, "empty")

\* line 836-868: the record is appended, then the children are visited
VisitAppend ==
    /\ Walking
    /\ LET n == todo[1][1]  depth == todo[1][2] IN
        /\ ~budget_exceeded(depth, elements)
        /\ IsTag(doc, n)
        /\ ~is_skip_tag(doc[n].name)
        /\ ~is_empty_leaf(doc, n)
        /\ elements' = Append(elements,
                          element_data(doc, n, depth, elements, viewport_config))
        /\ todo' = child_calls(doc, n, depth) \o Tail(todo)
        /\ Visit(n, depth, "appended")


----------------------------------------------------------------------------
(* Numbers. A parsed number is held in thousandths (16px is 16000), the     *)
(* fraction cut after three digits.                                         *)

IsDigit(c) == c \in {"0", "1", "2", "3", "4", "5", "6", "7", "8", "9"}

DigitVal(c) ==
    CASE c = "0" -> 0 [] c = "1" -> 1 [] c = "2" -> 2 [] c = "3" -> 3
      [] c = "4" -> 4 [] c = "5" -> 5 [] c = "6" -> 6 [] c = "7" -> 7
      [] c = "8" -> 8 [] c = "9" -> 9

RECURSIVE DigitsEnd(_, _)
\* \d* from position i: the position after the run of digits
DigitsEnd(s, i) ==
    IF i <= Len(s) /\ IsDigit(s[i]) THEN DigitsEnd(s, i + 1) ELSE i

\* s[i], or "" past the end of s
At(s, i) == IF i \in DOMAIN s THEN s[i] ELSE ""

RECURSIVE SpacesEnd(_, _)
\* \s* from position i: the position after the run of blanks
SpacesEnd(s, i) ==
    IF i <= Len(s) /\ IsSpace(s[i]) THEN SpacesEnd(s, i + 1) ELSE i

RECURSIVE AlphaEnd(_, _)
\* [\d.]* from position i: the position after the run of digits and dots
AlphaEnd(s, i) ==
    IF i <= Len(s) /\ (IsDigit(s[i]) \/ s[i] = ".") THEN AlphaEnd(s, i + 1)
    ELSE i

RECURSIVE NatOf(_)
NatOf(ds) ==
    IF ds = <<>> THEN 0
    ELSE NatOf(SubSeq(ds, 1, Len(ds) - 1)) * 10 + DigitVal(ds[Len(ds)])

Milli(intDigits, fracDigits) ==
    NatOf(intDigits) * 1000 + NatOf(Prefix(fracDigits \o <<"0", "0", "0">>, 3))

\* \d+(?:\.\d+)? at position i: the position after the match, i if none
NumberEnd(s, i) ==
    LET e == DigitsEnd(s, i) IN
    IF e > i /\ e + 1 <= Len(s) /\ s[e] = "." /\ IsDigit(s[e + 1])
    THEN DigitsEnd(s, e + 1)
    ELSE e

\* float(match.group(1)) of the match of \d+(?:\.\d+)? at position i
NumberValue(s, i) ==
    LET e1 == DigitsEnd(s, i)
        e  == NumberEnd(s, i)
    IN  Milli(SubSeq(s, i, e1 - 1),
              IF e > e1 THEN SubSeq(s, e1 + 1, e - 1) ELSE <<>>)

\* parse_pixel_value of a string: re.search(r'(\d+(?:\.\d+)?)', value)
parse_pixel_value(value) ==
    IF value = <<>> \/ value = <<"a", "u", "t", "o">> THEN 0
    ELSE LET digits == { i \in DOMAIN value : IsDigit(value[i]) } IN
         IF digits = {} THEN 0
         ELSE NumberValue(value, CHOOSE i \in digits : \A j \in digits : i <= j)

RECURSIVE Pow10(_)
Pow10(k) == IF k = 0 THEN 1 ELSE 10 * Pow10(k - 1)

\* the parts of a Python float literal u without its sign: after the integer
\* digits, after the fraction, after the exponent (0: a broken exponent)
FloatInt(u)  == DigitsEnd(u, 1)
FloatFrac(u) ==
    IF FloatInt(u) <= Len(u) /\ u[FloatInt(u)] = "."
    THEN DigitsEnd(u, FloatInt(u) + 1) ELSE FloatInt(u)
FloatExpDigits(u) ==
    LET b == FloatFrac(u) IN
    IF b + 1 <= Len(u) /\ u[b + 1] \in {"+", "-"} THEN b + 2 ELSE b + 1
FloatExp(u) ==
    LET b == FloatFrac(u) IN
    IF b <= Len(u) /\ u[b] \in {"e", "E"}
    THEN IF DigitsEnd(u, FloatExpDigits(u)) > FloatExpDigits(u)
         THEN DigitsEnd(u, FloatExpDigits(u)) ELSE 0
    ELSE b

Unsigned(t) == IF t # <<>> /\ t[1] \in {"+", "-"} THEN Tail(t) ELSE t

\* float(s) does not raise ValueError: optional blanks and sign, then inf,
\* infinity, nan, or digits with an optional point and exponent
float_ok(s) ==
    LET u == Unsigned(strip(s)) IN
    \/ u \in { <<"i","n","f">>, <<"n","a","n">>,
               <<"i","n","f","i","n","i","t","y">> }
    \/ /\ FloatInt(u) > 1 \/ FloatFrac(u) > FloatInt(u) + 1
       /\ FloatExp(u) = Len(u) + 1

\* float(s) in thousandths, for a finite literal that float_ok accepts
float_milli(s) ==
    LET t == strip(s)
        u == Unsigned(t)
        a == FloatInt(u)
        b == FloatFrac(u)
        m == Milli(SubSeq(u, 1, a - 1),
                   IF b > a THEN SubSeq(u, a + 1, b - 1) ELSE <<>>)
        k == IF FloatExp(u) > b
             THEN NatOf(SubSeq(u, FloatExpDigits(u), Len(u))) ELSE 0
        v == IF FloatExp(u) > b /\ u[FloatExpDigits(u) - 1] = "-"
             THEN m \div Pow10(k) ELSE m * Pow10(k)
    IN  IF t # <<>> /\ t[1] = "-" THEN -v ELSE v

----------------------------------------------------------------------------
(* More str methods *)

RECURSIVE split_ws(_)
\* str.split(): the words between runs of blanks
split_ws(s) ==
    LET t == lstrip(s) IN
    IF t = <<>> THEN <<>>
    ELSE LET blanks == { i \in DOMAIN t : IsSpace(t[i]) }
             e == IF blanks = {} THEN Len(t) + 1
                  ELSE CHOOSE i \in blanks : \A j \in blanks : i <= j
         IN  <<SubSeq(t, 1, e - 1)>> \o split_ws(SubSeq(t, e, Len(t)))

endswith(s, suffix) ==
    /\ Len(s) >= Len(suffix)
    /\ SubSeq(s, Len(s) - Len(suffix) + 1, Len(s)) = suffix

RECURSIVE rstrip_char(_, _)
\* s.rstrip(c)
rstrip_char(s, c) ==
    IF s # <<>> /\ s[Len(s)] = c
    THEN rstrip_char(SubSeq(s, 1, Len(s) - 1), c) ELSE s

\* -?\d+(?:\.\d+)?px at position i: the position after the match, 0 if none
PxMatchEnd(s, i) ==
    LET j == IF s[i] = "-" THEN i + 1 ELSE i
        e == NumberEnd(s, j)
    IN  IF e > j /\ e + 1 <= Len(s) /\ s[e] = "p" /\ s[e + 1] = "x"
        THEN e + 2 ELSE 0

RECURSIVE findall_px(_, _)
\* re.findall(r'-?\d+(?:\.\d+)?px', s), scanning from position i
findall_px(s, i) ==
    IF i > Len(s) THEN <<>>
    ELSE IF PxMatchEnd(s, i) # 0
         THEN <<SubSeq(s, i, PxMatchEnd(s, i) - 1)>>
              \o findall_px(s, PxMatchEnd(s, i))
         ELSE findall_px(s, i + 1)

----------------------------------------------------------------------------
(* The design-model mapper, WebsiteCapture.create_design_analysis.          *)
(* A Python exception is a predicate *_raises beside the operator that      *)
(* gives the value when nothing is raised.                                  *)

none_  == <<"n", "o", "n", "e">>
normal == <<"n", "o", "r", "m", "a", "l">>
px     == <<"p", "x">>

\* (element.get('tagName') or element.get('tag', '')).lower()
lower(tagName) ==
    CASE tagName = "DIV"        -> "div"
      [] tagName = "SPAN"       -> "span"
      [] tagName = "P"          -> "p"
      [] tagName = "H1"         -> "h1"
      [] tagName = "H2"         -> "h2"
      [] tagName = "SMALL"      -> "small"
      [] tagName = "HR"         -> "hr"
      [] tagName = "IMG"        -> "img"
      [] tagName = "INPUT"      -> "input"
      [] tagName = "A"          -> "a"
      [] tagName = "BUTTON"     -> "button"
      [] tagName = "TITLE"      -> "title"
      [] tagName = "SECTION"    -> "section"
      [] tagName = "BODY"       -> "body"
      [] tagName = "[DOCUMENT]" -> "[document]"
      [] tagName = "SCRIPT"     -> "script"
      [] tagName = "NOSCRIPT"   -> "noscript"
      [] tagName = "IFRAME"     -> "iframe"

\* line 1931: float(line_height.rstrip('%')) outside any try
map_line_height_raises(line_height) ==
    /\ line_height # normal
    /\ ~endswith(line_height, px)
    /\ endswith(line_height, <<"%">>)
    /\ ~float_ok(rstrip_char(line_height, "%"))

map_line_height(line_height) ==
    IF line_height = normal THEN [unit |-> "AUTO"]
    ELSE IF endswith(line_height, px)
    THEN [unit |-> "PIXELS", value |-> parse_pixel_value(line_height)]
    ELSE IF endswith(line_height, <<"%">>)
    THEN [unit |-> "PERCENT",
          value |-> float_milli(rstrip_char(line_height, "%"))]
    ELSE IF float_ok(line_height)
    THEN [unit |-> "PERCENT", value |-> float_milli(line_height) * 100]
    ELSE [unit |-> "AUTO"]

map_letter_spacing(letter_spacing) ==
    IF letter_spacing = normal THEN [unit |-> "PIXELS", value |-> 0]
    ELSE [unit |-> "PIXELS", value |-> parse_pixel_value(letter_spacing)]

\* the size, line height and letter spacing of map_css_to_figma_text
map_css_to_figma_text(visual_styles) ==
    [ fontSize      |-> parse_pixel_value(get(visual_styles, "fontSize",
                                              <<"1", "6", "p", "x">>)),
      lineHeight    |-> map_line_height(get(visual_styles, "lineHeight", normal)),
      letterSpacing |-> map_letter_spacing(get(visual_styles, "letterSpacing",
                                               <<"0", "p", "x">>)) ]

\* map_box_shadow_to_figma: the effects it adds (none when it returns None);
\* offsets, blur and spread of the effect
map_box_shadow_to_figma(box_shadow) ==
    LET numbers == findall_px(box_shadow, 1) IN
    IF Len(numbers) >= 3
    THEN << [type   |-> "DROP_SHADOW",
             x      |-> parse_pixel_value(numbers[1]),
             y      |-> parse_pixel_value(numbers[2]),
             radius |-> parse_pixel_value(numbers[3]),
             spread |-> IF Len(numbers) > 3
                        THEN parse_pixel_value(numbers[4]) ELSE 0] >>
    ELSE <<>>

map_justify_content(justify_content) ==
    CASE justify_content = <<"c","e","n","t","e","r">> -> "CENTER"
      [] justify_content = <<"f","l","e","x","-","e","n","d">> -> "MAX"
      [] justify_content =
           <<"s","p","a","c","e","-","b","e","t","w","e","e","n">> ->
           "SPACE_BETWEEN"
      [] OTHER -> "MIN"

map_align_items(align_items) ==
    CASE align_items = <<"c","e","n","t","e","r">> -> "CENTER"
      [] align_items = <<"f","l","e","x","-","e","n","d">> -> "MAX"
      [] align_items = <<"s","t","r","e","t","c","h">> -> "STRETCH"
      [] OTHER -> "MIN"

\* the page script's flexboxMapping.figmaLayoutMode (line 510) of an element
\* whose display is flex, from its computed flex-direction
figmaLayoutMode(flexDirection) ==
    IF flexDirection = <<"c","o","l","u","m","n">>
       \/ flexDirection =
            <<"c","o","l","u","m","n","-","r","e","v","e","r","s","e">>
    THEN "VERTICAL" ELSE "HORIZONTAL"

\* line 1901: float(visual.get('opacity', 1))
create_figma_rectangle_section_raises(visual) ==
    ~float_ok(get(visual, "opacity", <<"1">>))

\* create_figma_rectangle_section: the name, the size and the entries of
\* figmaProperties other than position, fills and strokes
create_figma_rectangle_section(element, visual, position, tag_name) ==
    LET border  == get(visual, "border", <<>>)
        isFlex  == get(visual, "display", <<>>) = <<"f","l","e","x">>
        shadow  == get(visual, "boxShadow", <<>>)
    IN
    [ name         |-> <<upper(tag_name), "_Section">>,
      width        |-> position.width,
      height       |-> position.height,
      strokeWeight |-> IF border # <<>> /\ border # none_
                          /\ Len(split_ws(border)) >= 3
                       THEN parse_pixel_value(split_ws(border)[1]) ELSE 0,
      cornerRadius |-> parse_pixel_value(get(visual, "borderRadius",
                                             <<"0", "p", "x">>)),
      effects      |-> IF shadow # <<>> /\ shadow # none_
                       THEN map_box_shadow_to_figma(shadow) ELSE <<>>,
      layoutMode   |-> IF ~isFlex THEN "NONE"
                       ELSE IF get(visual, "flexDirection", <<"r","o","w">>)
                                 = <<"r","o","w">>
                            THEN "HORIZONTAL" ELSE "VERTICAL",
      primaryAxisAlignItems |->
          IF isFlex
          THEN map_justify_content(get(visual, "justifyContent",
                                       <<"f","l","e","x","-","s","t","a","r","t">>))
          ELSE "MIN",
      counterAxisAlignItems |->
          IF isFlex
          THEN map_align_items(get(visual, "alignItems",
                                   <<"s","t","r","e","t","c","h">>))
          ELSE "MIN",
      itemSpacing   |-> IF isFlex
                        THEN parse_pixel_value(get(visual, "gap",
                                                   <<"0", "p", "x">>))
                        ELSE 0,
      paddingLeft   |-> parse_pixel_value(get(visual, "paddingLeft", <<"0","p","x">>)),
      paddingRight  |-> parse_pixel_value(get(visual, "paddingRight", <<"0","p","x">>)),
      paddingTop    |-> parse_pixel_value(get(visual, "paddingTop", <<"0","p","x">>)),
      paddingBottom |-> parse_pixel_value(get(visual, "paddingBottom", <<"0","p","x">>)),
      opacity       |-> float_milli(get(visual, "opacity", <<"1">>)),
      visible       |-> get(visual, "display", <<"b","l","o","c","k">>) # none_,
      node          |-> element.node ]

\* a slip of line 1647: a structural container is a shape only
is_text_not_container(element) ==
    /\ strip(element.textContent) # <<>>
    /\ lower(element.tagName) \notin
          {"div", "section", "article", "header", "footer", "main", "nav",
           "aside"}

\* line 1647: "if text_content and text_content.strip()"
is_text(element) == strip(element.textContent) # <<>>

\* line 1673-1675
is_line(element) ==
    \/ lower(element.tagName) = "hr"
    \/ get(element.visual, "borderTop", none_) # none_
    \/ get(element.visual, "borderBottom", none_) # none_

\* line 1687-1688
is_dot(element) ==
    /\ get(element.visual, "borderRadius", <<"0", "p", "x">>) # <<"0", "p", "x">>
    /\ element.position.width < 50
    /\ element.position.height < 50

\* line 1700
is_rectangle(element) ==
    lower(element.tagName) \in
        {"div", "section", "article", "header", "footer", "main", "nav", "aside"}

text_info(element) ==
    [ content         |-> strip(element.textContent),
      fontSize        |-> parse_pixel_value(get(element.visual, "fontSize",
                                                <<"1", "6", "p", "x">>)),
      tag             |-> element.tagName,
      figmaProperties |-> map_css_to_figma_text(element.visual),
      node            |-> element.node ]

\* line 1679: visual.get('borderTop', '1px').split()[0] of a blank value
line_info_raises(element) ==
    /\ get(element.visual, "borderTop", none_) # none_
    /\ split_ws(get(element.visual, "borderTop", <<"1", "p", "x">>)) = <<>>

IsHex(c) ==
    c \in {"0","1","2","3","4","5","6","7","8","9",
           "a","b","c","d","e","f","A","B","C","D","E","F"}

\* where re.search(r'#[a-fA-F0-9]{3,6}|rgb\([^)]+\)', s) ends a match that
\* starts at i (0: no match starts at i)
color_match_end(s, i) ==
    LET hex == { k \in 3..6 : /\ i + k <= Len(s)
                              /\ \A j \in (i + 1)..(i + k) : IsHex(s[j]) }
        closing == { j \in (i + 5)..Len(s) : s[j] = ")" }
    IN  IF s[i] = "#" /\ hex # {}
        THEN i + (CHOOSE k \in hex : \A j \in hex : j <= k)
        ELSE IF /\ i + 4 <= Len(s)
                /\ SubSeq(s, i, i + 3) = <<"r", "g", "b", "(">>
                /\ s[i + 4] # ")"
                /\ closing # {}
        THEN CHOOSE j \in closing : \A k \in closing : j <= k
        ELSE 0

\* extract_border_color: the first #hex or rgb(...) of the shorthand, else
\* '#000000'
extract_border_color(border_style) ==
    LET black  == <<"#","0","0","0","0","0","0">>
        starts == { i \in DOMAIN border_style :
                      color_match_end(border_style, i) # 0 }
    IN  IF border_style = <<>> \/ border_style = none_ \/ starts = {}
        THEN black
        ELSE LET i == CHOOSE x \in starts : \A y \in starts : x <= y
             IN  SubSeq(border_style, i, color_match_end(border_style, i))

\* the length, thickness and colour of line_info
line_info(element) ==
    [ length    |-> element.position.width,
      thickness |-> parse_pixel_value(
                       IF get(element.visual, "borderTop", none_) # none_
                       THEN split_ws(get(element.visual, "borderTop",
                                         <<"1", "p", "x">>))[1]
                       ELSE <<"1", "p", "x">>),
      color     |-> extract_border_color(
                       get(element.visual, "borderTop",
                           <<"#","0","0","0","0","0","0">>)),
      node      |-> element.node ]

\* line 1695: visual.get('border', '0px').split()[0] of a blank value
dot_info_raises(element) ==
    /\ get(element.visual, "border", none_) # none_
    /\ split_ws(get(element.visual, "border", <<"0", "p", "x">>)) = <<>>

\* the radius (in thousandths) and border width of dot_info
dot_info(element) ==
    [ radius      |-> element.position.width * 500,
      borderWidth |-> parse_pixel_value(
                         IF get(element.visual, "border", none_) # none_
                         THEN split_ws(get(element.visual, "border",
                                           <<"0", "p", "x">>))[1]
                         ELSE <<"0", "p", "x">>),
      node        |-> element.node ]

\* some step of the loop body of line 1644-1703 raises for this element
element_raises(element) ==
    \/ is_text(element)
          /\ map_line_height_raises(get(element.visual, "lineHeight", normal))
    \/ is_line(element) /\ line_info_raises(element)
    \/ is_dot(element) /\ dot_info_raises(element)
    \/ is_rectangle(element)
          /\ create_figma_rectangle_section_raises(element.visual)

create_design_analysis_raises(elems) ==
    \E i \in DOMAIN elems : element_raises(elems[i])

rectangle_of(element) ==
    create_figma_rectangle_section(element, element.visual, element.position,
                                   lower(element.tagName))

\* f"{typo['fontFamily']}-{typo['fontSize']}-{typo['fontWeight']}"
identifier(typo) ==
    typo.fontFamily \o <<"-">> \o typo.fontSize \o <<"-">> \o typo.fontWeight

RECURSIVE typography_styles(_, _, _)
\* the loop of extract_typography_data over the records (every record has a
\* non-empty typography dict)
typography_styles(elems, styles, seen_combinations) ==
    IF elems = <<>> THEN styles
    ELSE LET typo == elems[1].typography IN
         IF identifier(typo) \in seen_combinations
         THEN typography_styles(Tail(elems), styles, seen_combinations)
         ELSE typography_styles(Tail(elems), Append(styles, typo),
                                seen_combinations \cup {identifier(typo)})

\* WebsiteCapture.extract_typography_data(elements)
extract_typography_data(elems) == typography_styles(elems, <<>>, {})

----------------------------------------------------------------------------
(* The colours of the page, extract_page_colors, and their use by the       *)
(* records, the "colors" of create_design_analysis.                          *)

\* where a match of one of the three patterns of line 1423-1425 that starts
\* at i ends (0: none starts at i):
\*   hex   #[0-9a-fA-F]{3,6}
\*   rgb   rgb\(\s*\d+\s*,\s*\d+\s*,\s*\d+\s*\)
\*   rgba  rgba\(\s*\d+\s*,\s*\d+\s*,\s*\d+\s*,\s*[\d.]+\s*\)
pattern_end(s, i, pattern) ==
    LET hex  == { k \in 3..6 : /\ i + k <= Len(s)
                               /\ \A j \in (i + 1)..(i + k) : IsHex(s[j]) }
        open == IF pattern = "rgb" THEN i + 3 ELSE i + 4
        b1 == SpacesEnd(s, open + 1)
        e1 == SpacesEnd(s, DigitsEnd(s, b1))
        b2 == SpacesEnd(s, e1 + 1)
        e2 == SpacesEnd(s, DigitsEnd(s, b2))
        b3 == SpacesEnd(s, e2 + 1)
        e3 == SpacesEnd(s, DigitsEnd(s, b3))
        b4 == SpacesEnd(s, e3 + 1)
        e4 == SpacesEnd(s, AlphaEnd(s, b4))
    IN  IF pattern = "hex"
        THEN IF s[i] = "#" /\ hex # {}
             THEN i + (CHOOSE k \in hex : \A j \in hex : j <= k)
             ELSE 0
        ELSE IF /\ open <= Len(s)
                /\ SubSeq(s, i, open) = (IF pattern = "rgb"
                                         THEN <<"r","g","b","(">>
                                         ELSE <<"r","g","b","a","(">>)
                /\ DigitsEnd(s, b1) > b1 /\ At(s, e1) = ","
                /\ DigitsEnd(s, b2) > b2 /\ At(s, e2) = ","
                /\ DigitsEnd(s, b3) > b3
                /\ IF pattern = "rgb" THEN At(s, e3) = ")"
                   ELSE At(s, e3) = "," /\ AlphaEnd(s, b4) > b4 /\ At(s, e4) = ")"
        THEN IF pattern = "rgb" THEN e3 ELSE e4
        ELSE 0

RECURSIVE findall(_, _, _)
\* set(re.findall(pattern, s)), from position i on
findall(s, i, pattern) ==
    IF i > Len(s) THEN {}
    ELSE IF pattern_end(s, i, pattern) = 0 THEN findall(s, i + 1, pattern)
    ELSE { SubSeq(s, i, pattern_end(s, i, pattern)) }
            \cup findall(s, pattern_end(s, i, pattern) + 1, pattern)

\* extract_page_colors: the set of the matches in the style attributes of
\* the page (css_data['inline_styles']; the property names of a style
\* attribute hold no match, and the pages here have no <style> text)
extract_page_colors(d) ==
    UNION { UNION { UNION { findall(d[n].style[k][2], 1, pattern) :
                              pattern \in {"hex", "rgb", "rgba"} } :
                      k \in DOMAIN d[n].style } :
              n \in DOMAIN d }

\* list(colors): the colours of the set in the order the set yields them,
\* which Python leaves open
list_of(colors) ==
    { q \in [ 1..Cardinality(colors) -> colors ] : Range(q) = colors }

\* "color in str(visual.get('border', ''))": the text occurs in s
occurs_in(text, s) ==
    \E i \in 1..(Len(s) - Len(text) + 1) :
        SubSeq(s, i, i + Len(text) - 1) = text

\* line 1709-1731: the entry of one colour ('usage' is list(usage_types), a
\* set; 'rgb' is left out)
color_info(color, elems) ==
    LET text   == { i \in DOMAIN elems : get(elems[i].visual, "color", <<>>) = color }
        back   == { i \in DOMAIN elems :
                      get(elems[i].visual, "backgroundColor", <<>>) = color }
        border == { i \in DOMAIN elems :
                      occurs_in(color, get(elems[i].visual, "border", <<>>)) }
    IN  [ hex   |-> color,
          usage |-> (IF text = {} THEN {} ELSE {"text"})
                      \cup (IF back = {} THEN {} ELSE {"background"})
                      \cup (IF border = {} THEN {} ELSE {"border"}),
          count |-> Cardinality(text) + Cardinality(back) + Cardinality(border) ]

\* line 1708-1709: "if color and color != 'transparent'"
is_analysed(color) ==
    color # <<>> /\ color # <<"t","r","a","n","s","p","a","r","e","n","t">>

\* the colours of the design analysis, for the list of the page's colours
color_analysis(colors, elems) ==
    LET kept == SelectSeq(colors, is_analysed) IN
    [ i \in DOMAIN kept |-> color_info(kept[i], elems) ]

\* line 1773: summary['hasInteractiveElements']
hasInteractiveElements(elems) ==
    \E i \in DOMAIN elems :
        lower(elems[i].tagName) \in {"button", "a", "input"}

\* create_design_analysis: the text elements and the shapes
create_design_analysis(elems, colors) ==
    LET texts == SelectSeq(elems, is_text)
        lines == SelectSeq(elems, is_line)
        dots  == SelectSeq(elems, is_dot)
        rects == SelectSeq(elems, is_rectangle)
    IN  [ textElements |-> [i \in DOMAIN texts |-> text_info(texts[i])],
          lines        |-> [i \in DOMAIN lines |-> line_info(lines[i])],
          dots         |-> [i \in DOMAIN dots  |-> dot_info(dots[i])],
          rectangles   |-> [i \in DOMAIN rects |-> rectangle_of(rects[i])],
          colors       |-> color_analysis(colors, elems),
          summary      |->
              [ hasInteractiveElements |-> hasInteractiveElements(elems) ] ]
----------------------------------------------------------------------------
(* The documents the walker is run on *)

\* the tags, strings and inline styles a small document is built from
NodeKinds ==
    { Tag("div", 0, <<>>), Tag("span", 0, <<>>), Tag("title", 0, <<>>),
      Tag("noscript", 0, <<>>), Tag("img", 0, <<>>),
      Tag("div", 0, << <<"display", <<"n","o","n","e">> >> >>),
      Tag("span", 0, << <<"visibility", <<"h","i","d","d","e","n">> >> >>),
      Str(<<" ">>, 0), Str(<<" ","H","i"," ">>, 0) }

\* the last node and its ancestors: where pre-order lets the next node hang
RightPath(d) == { p \in DOMAIN d : p = Len(d) \/ IsAncestor(d, p, Len(d)) }

\* html.parser gives children to non-void tags only, and merges adjacent text
CanParent(d, p, kind) ==
    /\ IsTag(d, p)
    /\ d[p].name \notin void_tags
    /\ kind.name = NoName =>
          \/ children(d, p) = {}
          \/ IsTag(d, CHOOSE c \in children(d, p) : \A e \in children(d, p) : e <= c)

Extend(D) ==
    D \cup { Append(d, [kind EXCEPT !.parent = p]) :
                <<d, kind, p>> \in
                    { t \in D \X NodeKinds \X (1..(MaxNodes + 1)) :
                        /\ t[3] \in RightPath(t[1])
                        /\ CanParent(t[1], t[3], t[2]) } }

RECURSIVE Grow(_, _)
Grow(D, k) == IF k = 0 THEN D ELSE Grow(Extend(D), k - 1)

\* the root is soup.body, or soup ('[document]') when there is no <body>
SmallDocs ==
    Grow({ <<Tag("body", 0, <<>>)>>, <<Tag("[document]", 0, <<>>)>> }, MaxNodes)

\* a chain of `chain` nested <div>s below <body>, then `wide` childless
\* siblings below the chain's node at depth `at`; every second sibling has
\* the tag `filler`
ChainWide(chain, wide, at, filler) ==
    [ i \in 1..(1 + chain + wide) |->
        IF i = 1 THEN Tag("body", 0, <<>>)
        ELSE IF i <= 1 + chain THEN Tag("div", i - 1, <<>>)
        ELSE Tag(IF (i - chain) % 2 = 0 THEN "div" ELSE filler, at + 1, <<>>) ]

WideSizes == {0, 1, 2} \cup ((MaxElements - 1)..MaxWide)

BigDocs ==
    { ChainWide(chain, wide, at, filler) :
        <<chain, wide, at, filler>> \in
            { t \in (0..MaxChain) \X WideSizes \X (0..MaxChain) \X {"div", "span"} :
                t[3] \in {0, t[1]} } }

\* <body> with two or three children, with and without id attributes
IdKinds ==
    { TagId("div", 1, ""), TagId("div", 1, "a"), TagId("div", 1, "b"),
      TagId("span", 1, "a") }

IdDocs ==
    { <<Tag("body", 0, <<>>), a, b>> : <<a, b>> \in IdKinds \X IdKinds }
      \cup { <<Tag("body", 0, <<>>), a, b, c>> :
                <<a, b, c>> \in IdKinds \X IdKinds \X IdKinds }

Documents == SmallDocs \cup BigDocs \cup IdDocs

----------------------------------------------------------------------------
(* The documents the mapper is run on: <body> with one styled element and, *)
(* optionally, a text in it.                                                *)

\* rules of an inline style attribute
MaxRules == 2

StyleRules ==
    {
      <<"opacity", <<"a", "b", "c">>>>,
      <<"opacity", <<"0", ".", "5">>>>,
      <<"border-top", <<>>>>,
      <<"border-top", <<"1", "p", "x", " ", "s", "o", "l", "i", "d", " ", "#", "0", "0", "0">>>>,
      <<"border", <<>>>>,
      <<"border", <<"2", "p", "x", " ", "s", "o", "l", "i", "d", " ", "r", "e", "d">>>>,
      <<"border-radius", <<"5", "0", "%">>>>,
      <<"line-height", <<"a", "b", "c", "%">>>>,
      <<"line-height", <<"1", "5", "0", "%">>>>,
      <<"line-height", <<"1", ".", "5">>>>,
      <<"line-height", <<"2", "4", "p", "x">>>>,
      <<"box-shadow", <<"g", "a", "r", "b", "a", "g", "e">>>>,
      <<"box-shadow", <<"-", "2", "p", "x", " ", "4", "p", "x", " ", "6", "p", "x", " ", "#", "0", "0", "0">>>> }

RECURSIVE SeqsUpTo(_, _)
\* the sequences over S of length at most k
SeqsUpTo(S, k) ==
    IF k = 0 THEN { <<>> }
    ELSE LET shorter == SeqsUpTo(S, k - 1) IN
         shorter \cup { Append(q, x) : <<q, x>> \in shorter \X S }

StyledDocs ==
    { <<Tag("body", 0, <<>>), Tag(name, 1, style)>> \o text :
        <<name, style, text>> \in
            {"div", "span", "p"} \X SeqsUpTo(StyleRules, MaxRules)
                \X { <<>>, <<Str(<<"H", "i">>, 2)>> } }

\* a heading or a paragraph with the text "Title", with and without an
\* inline font-size
TextDocs ==
    { <<Tag("body", 0, <<>>), Tag(name, 1, style), Str(<<"T","i","t","l","e">>, 2)>> :
        <<name, style>> \in
            {"h1", "h2", "small", "p"}
              \X { <<>>,
                    << <<"font-size", <<"2","0","p","x">>>> >>,
                    << <<"font-size", <<"1",".","5","e","m">>>> >>,
                    << <<"font-size", <<"2","0","p","x">>>>,
                       <<"font-size", <<"1","2","p","x">>>> >> } }

\* a container whose style attribute declares paddings
PaddingDocs ==
    { <<Tag("body", 0, <<>>), Tag(name, 1, style)>> :
        <<name, style>> \in
            {"div", "section"}
              \X { << <<"padding", <<"1","0","p","x">>>> >>,
                    << <<"padding", <<"0">>>> >>,
                    << <<"padding", <<"2",".","5","e","m">>>> >>,
                    << <<"padding", <<"1","0","p","x"," ","4","p","x">>>> >>,
                    << <<"padding-top", <<"1","0","p","x">>>> >>,
                    << <<"padding", <<"1","0","p","x">>>>,
                       <<"padding-left", <<"4","p","x">>>> >> } }

\* a rule <hr> or a <div>, bare or with a top or a bottom border
LineDocs ==
    { <<Tag("body", 0, <<>>), Tag(name, 1, style)>> :
        <<name, style>> \in
            {"hr", "div"}
              \X { <<>>,
                    << <<"border-top", <<"2","p","x"," ","s","o","l","i","d"," ","#","3","3","3">>>> >>,
                    << <<"border-bottom", <<"2","p","x"," ","s","o","l","i","d"," ","#","3","3","3">>>> >>,
                    << <<"border-top", <<"3","p","x"," ","s","o","l","i","d"," ","r","g","b","(","1",",","2",",","3",")">>>> >>,
                    << <<"border-top", <<"2","p","x"," ","s","o","l","i","d"," ","#","3","3","3">>>>,
                       <<"border-bottom", <<"4","p","x"," ","s","o","l","i","d"," ","#","a","b","c","d","e","f">>>> >> } }

\* two texts with inline typography, some of it with "-" in its values
TypographyRules ==
    { <<>>,
      << <<"font-size", <<"2","0","p","x">>>> >>,
      << <<"font-weight", <<"7","0","0">>>> >>,
      << <<"line-height", <<"2">>>> >>,
      << <<"font-family", <<"A","l","e","o","-","x">>>>,
         <<"font-size", <<"l","a","r","g","e">>>> >>,
      << <<"font-family", <<"A","l","e","o">>>>,
         <<"font-size", <<"x","-","l","a","r","g","e">>>> >> }

TypographyDocs ==
    { <<Tag("body", 0, <<>>), Tag("p", 1, s1), Str(<<"H","i">>, 2),
        Tag(name, 1, s2), Str(<<"H","i">>, 4)>> :
        <<s1, name, s2>> \in TypographyRules \X {"p", "h1"} \X TypographyRules }

\* rules that give a colour to the text, the background or the border
ColorRules ==
    { <<"color", <<"#","F","F","F">>>>,
      <<"color", <<"#","f","f","f">>>>,
      <<"background-color", <<"#","f","f","f">>>>,
      <<"border", <<"1","p","x"," ","s","o","l","i","d"," ","#","f","f","f">>>>,
      <<"border", <<"1","p","x"," ","s","o","l","i","d"," ","#","f","f","f","0","0","0">>>>,
      <<"color", <<"r","g","b","(","1",","," ","2",","," ","3",")">>>>,
      <<"background-color", <<"R","G","B","(","1",","," ","2",","," ","3",")">>>> }

\* a container with one or two of these rules
ColorDocs ==
    { <<Tag("body", 0, <<>>), Tag("div", 1, style)>> :
        style \in { <<r>> : r \in ColorRules }
                    \cup { <<r, q>> : <<r, q>> \in ColorRules \X ColorRules } }

\* a page with one control, or with one element that is made to act on a
\* click, or with neither
InteractiveDocs ==
    { <<Tag("body", 0, <<>>), Tag(name, 1, <<>>), Str(<<"G","o">>, 2)>> :
        name \in {"button", "a", "p", "span"} }
    \cup { <<Tag("body", 0, <<>>), Tag("input", 1, <<>>)>>,
           <<Tag("body", 0, <<>>), Tag("div", 1, <<>>)>>,
           <<Tag("body", 0, <<>>), TagOnclick("div", 1, "go()")>>,
           <<Tag("body", 0, <<>>), TagOnclick("span", 1, "go()"),
             Str(<<"G","o">>, 2)>>,
           <<Tag("body", 0, <<>>),
             Tag("div", 1, << <<"cursor", <<"p","o","i","n","t","e","r">>>> >>)>>,
           <<Tag("body", 0, <<>>),
             Tag("div", 1, << <<"cursor", <<"a","u","t","o">>>> >>)>> }

\* the values of display and of flex-direction
FlexRules ==
    { <<"display", <<"f","l","e","x">>>>,
      <<"display", <<"b","l","o","c","k">>>>,
      <<"flex-direction", <<"r","o","w">>>>,
      <<"flex-direction", <<"r","o","w","-","r","e","v","e","r","s","e">>>>,
      <<"flex-direction", <<"c","o","l","u","m","n">>>>,
      <<"flex-direction",
        <<"c","o","l","u","m","n","-","r","e","v","e","r","s","e">>>>,
      <<"gap", <<"8","p","x">>>>,
      <<"justify-content", <<"c","e","n","t","e","r">>>> }

\* a container with one or two of them
FlexDocs ==
    { <<Tag("body", 0, <<>>), Tag("div", 1, style)>> :
        style \in { <<r>> : r \in FlexRules }
                    \cup { <<r, q>> : <<r, q>> \in FlexRules \X FlexRules } }

\* containers that have text of their own and child elements with text
TextTreeDocs ==
    { <<Tag("body", 0, <<>>), Tag("div", 1, <<>>), Str(<<"A">>, 2),
        Tag(name, 2, <<>>), Str(<<"B">>, 4)>> : name \in {"p", "div"} }
    \cup { <<Tag("body", 0, <<>>), Tag("div", 1, <<>>), Str(<<"A">>, 2),
             Tag("div", 2, <<>>), Str(<<" ">>, 4), Tag("span", 1, <<>>),
             Str(<<"C">>, 6)>> }

\* a preset, and an explicit viewport narrow enough for "small" elements
Viewports ==
    { VIEWPORTS.desktop, [width |-> 120, height |-> 600, device |-> Text("Custom")] }

----------------------------------------------------------------------------
(* extract_real_website_data after a successful fetch: line 726-727 start   *)
(* the walk with elements = [], line 747 maps the records, line 749-781     *)
(* return the payload, line 786-790 turn any exception into the payload of  *)
(* create_error_response.                                                   *)

\* create_error_response: a mock payload (one mock element, no analysis)
create_error_response(config, error_message) ==
    [ kind     |-> "mock",
      device   |-> config.device,
      width    |-> config.width,
      height   |-> config.height,
      error    |-> error_message ]

Init ==
    /\ \/ doc \in Documents /\ viewport_config = VIEWPORTS.desktop
       \/ doc \in StyledDocs /\ viewport_config \in Viewports
       \/ doc \in TextDocs /\ viewport_config = VIEWPORTS.desktop
       \/ doc \in PaddingDocs /\ viewport_config = VIEWPORTS.desktop
       \/ doc \in LineDocs /\ viewport_config = VIEWPORTS.desktop
       \/ doc \in TypographyDocs /\ viewport_config = VIEWPORTS.desktop
       \/ doc \in ColorDocs /\ viewport_config = VIEWPORTS.desktop
       \/ doc \in InteractiveDocs /\ viewport_config = VIEWPORTS.desktop
       \/ doc \in FlexDocs /\ viewport_config = VIEWPORTS.desktop
       \/ doc \in TextTreeDocs /\ viewport_config = VIEWPORTS.desktop
    /\ todo = << <<1, 0>> >>
    /\ elements = <<>>
    /\ result = [kind |-> "none"]
    /\ fate = [n \in DOMAIN doc |-> "unvisited"]
    /\ depthStop = FALSE
    /\ countStop = FALSE
    /\ request = [endpoint |-> "none"]
    /\ pc = "none"
    /\ idx = 0
    /\ results = <<>>
    /\ response = [status |-> 0]
    /\ fetchLog = <<>>
    /\ captures = <<>>

\* line 747-781: the analysis is made and the payload returned
ReturnPayload ==
    /\ Walked
    /\ result.kind = "none"
    /\ ~create_design_analysis_raises(elements)
    /\ \E real_colors \in list_of(extract_page_colors(doc)) :
         result' = [ kind            |-> "real",
                     device          |-> viewport_config.device,
                     width           |-> viewport_config.width,
                     height          |-> viewport_config.height,
                     elements        |-> Prefix(elements, 100),
                     text_styles     |-> extract_typography_data(elements),
                     colors          |-> real_colors,
                     design_analysis |->
                         create_design_analysis(elements, real_colors) ]
    /\ UNCHANGED <<doc, viewport_config, todo, elements, fate, depthStop,
                   countStop, httpVars, captures>>

\* line 786-790: the analysis raised; "except Exception" answers
ReturnProcessingError ==
    /\ Walked
    /\ result.kind = "none"
    /\ create_design_analysis_raises(elements)
    /\ result' = create_error_response(viewport_config, "Processing error")
    /\ UNCHANGED <<doc, viewport_config, todo, elements, fate, depthStop,
                   countStop, httpVars, captures>>

Next ==
    \/ VisitBudget
    \/ VisitNotElement
    \/ VisitSkipTag
    \/ VisitSkipEmpty
    \/ VisitAppend
    \/ ReturnPayload
    \/ ReturnProcessingError

Spec == Init /\ [][Next]_vars

----------------------------------------------------------------------------
(* Claims about the walker and the mapper *)

Recorded(n) == \E i \in DOMAIN elements : elements[i].node = n

RECURSIVE Qualifies(_, _)
\* the nodes a walk with no element budget records: tags within the depth
\* limit that pass the filters, below ancestors that were recorded too
Qualifies(d, n) ==
    /\ IsTag(d, n)
    /\ Depth(d, n) <= MaxDepth
    /\ ~is_skip_tag(d[n].name)
    /\ ~is_empty_leaf(d, n)
    /\ d[n].parent # 0 => Qualifies(d, d[n].parent)

Qualifying(d) == { n \in DOMAIN d : Qualifies(d, n) }

\* C1: with element budget N = MaxElements the walker never holds more than
\* N records, and on a document with more than N qualifying nodes within
\* the depth limit it ends with exactly N records.
C1_ElementBudget ==
    /\ Len(elements) <= MaxElements
    /\ (Walked /\ Cardinality(Qualifying(doc)) > MaxElements)
          => Len(elements) = MaxElements

\* C2 (as claimed): once any visit has found the depth budget or the
\* element-count budget exceeded, no record is appended any more.
C2_AnyBudgetStopsAll ==
    [][(depthStop \/ countStop) => elements' = elements]_vars

\* C2 (amended): once a visit has found the element-count budget exceeded,
\* no record is appended any more; a visit that finds the depth budget
\* exceeded ends its own branch only: nothing below that node is ever
\* visited, and no record lies deeper than the depth budget.
C2_CountBudgetStopsAll ==
    [][ /\ countStop => elements' = elements
        /\ \A n \in DOMAIN doc :
              fate[n] = "budget" =>
                 \A m \in DOMAIN doc :
                    IsAncestor(doc, n, m) => fate'[m] = "unvisited"
        /\ \A i \in DOMAIN elements' : elements'[i].depth <= MaxDepth ]_vars

\* C2 witness: a walk that met the depth budget first, went on to record a
\* later sibling branch, and then met the element-count budget.
C2_Witness ==
    /\ Walked
    /\ countStop
    /\ \E n \in DOMAIN doc :
          /\ fate[n] = "budget"
          /\ Depth(doc, n) > MaxDepth
          /\ \E m \in DOMAIN doc : m > n /\ Recorded(m)
    /\ \E n \in DOMAIN doc :
          fate[n] = "budget" /\ Depth(doc, n) <= MaxDepth

\* the skip list of the specification (section 4.2)
spec_skip_tags ==
    {"script", "style", "meta", "link", "title", "head", "noscript", "iframe"}

\* C8: no record is made for an element whose tag is script, style, meta,
\* link, title, head, noscript or iframe, nor for a descendant of one.
C8_SkipTagsNeverRecorded ==
    \A i \in DOMAIN elements :
        LET n == elements[i].node IN
        /\ doc[n].name \notin spec_skip_tags
        /\ \A a \in DOMAIN doc :
              IsAncestor(doc, a, n) => doc[a].name \notin spec_skip_tags

\* C9: no record is made for an element whose display is none or whose
\* visibility is hidden.
C9_HiddenNeverRecorded ==
    \A i \in DOMAIN elements :
        /\ elements[i].visual.display # <<"n","o","n","e">>
        /\ elements[i].visual.visibility # <<"h","i","d","d","e","n">>

\* an element with no text, no child node and no embedded image
EmptyElement(d, n) ==
    /\ IsTag(d, n)
    /\ get_clean_text(d, n) = <<>>
    /\ children(d, n) = {}
    /\ ~find_img(d, n)

\* C10 (as claimed): an element with no text, no children and no embedded
\* image is never recorded, be it a <span> or a structural <div>.
C10_EmptyNeverRecorded ==
    \A n \in DOMAIN doc : EmptyElement(doc, n) => ~Recorded(n)

\* C10 (amended): an element with no text, no child node (not even a
\* whitespace text node) and no embedded image is recorded only if its tag
\* is structural: an empty <span> reached by the walk is dropped, an empty
\* <div> reached by the walk within the budgets is recorded.
C10_EmptyRecordedIffStructural ==
    \A n \in DOMAIN doc :
        EmptyElement(doc, n) =>
            /\ Recorded(n) => doc[n].name \in structural_tags
            /\ fate[n] = "appended" <=> Recorded(n)
            /\ (doc[n].name \in structural_tags
                  /\ fate[n] \notin {"unvisited", "budget"})
                  => Recorded(n)

\* C10 witness: a finished walk that dropped an empty <span> and recorded an
\* empty <div>.
C10_Witness ==
    /\ Walked
    /\ \E n \in DOMAIN doc :
          EmptyElement(doc, n) /\ doc[n].name = "span" /\ fate[n] = "empty"
    /\ \E n \in DOMAIN doc :
          EmptyElement(doc, n) /\ doc[n].name = "div" /\ Recorded(n)

\* the rectangles made from an element whose boxShadow is the word "garbage"
GarbageShadowRectangles ==
    { i \in DOMAIN result.design_analysis.rectangles :
        \E j \in DOMAIN elements :
            /\ elements[j].node = result.design_analysis.rectangles[i].node
            /\ get(elements[j].visual, "boxShadow", <<>>)
                  = <<"g","a","r","b","a","g","e">> }

\* C7: the mapper never raises: whatever the styles of the recorded
\* elements (an empty border-top or border, a non-numeric opacity, a
\* non-numeric percentage line-height), the capture of a fetched page ends
\* in the real payload, and a boxShadow of "garbage" gives no shadow effect.
C7_MapperNeverRaises ==
    /\ Walked => ~create_design_analysis_raises(elements)
    /\ result.kind # "mock"
    /\ result.kind = "real" =>
          \A i \in GarbageShadowRectangles :
              result.design_analysis.rectangles[i].effects = <<>>

\* a fetched page whose capture ended in the mock payload because the
\* mapper raised
C7_MockAfterRaise ==
    /\ result.kind = "mock"
    /\ create_design_analysis_raises(elements)

\* a capture with a "garbage" boxShadow that ended in the real payload
C7_GarbageShadowMapped ==
    /\ result.kind = "real"
    /\ GarbageShadowRectangles # {}

\* C11: within one traversal no two records carry the same identifier (the
\* id field of the record).
C11_UniqueIds ==
    \A i, j \in DOMAIN elements :
        elements[i].id = elements[j].id => i = j

----------------------------------------------------------------------------
(* The capture endpoints. A request is the endpoint and the JSON body      *)
(* `data`, a dict with the keys url and viewports or fewer. What the        *)
(* network and the fetched page do is chosen when the handler gets there:   *)
(* fetch is how requests.get / raise_for_status end, proc is whether the    *)
(* walk and the analysis of the fetched page end or raise (ReturnPayload    *)
(* and ReturnProcessingError above).                                        *)

\* requested viewports of one request
MaxViewports == 2

Urls == {"https://example.com", "example.com", "https://", "//example.com"}

\* urllib.parse.urlparse, the two fields the handlers read
urlparse(url) ==
    CASE url = "https://example.com" -> [scheme |-> "https", netloc |-> "example.com"]
      [] url = "example.com"         -> [scheme |-> "",      netloc |-> ""]
      [] url = "https://"            -> [scheme |-> "https", netloc |-> ""]
      [] url = "//example.com"       -> [scheme |-> "",      netloc |-> "example.com"]

\* line 2105: "if not parsed_url.scheme or not parsed_url.netloc"
invalid_url(url) == urlparse(url).scheme = "" \/ urlparse(url).netloc = ""

\* line 714-715: requests.get and raise_for_status return, or raise a
\* RequestException; without a scheme or a host requests.get raises
\* MissingSchema / InvalidURL before anything is sent
fetch_outcomes(url) ==
    IF urlparse(url).scheme = "" \/ urlparse(url).netloc = ""
    THEN {"fail"} ELSE {"ok", "fail"}

Dict(fields) == [type |-> "dict", val |-> fields]

\* items of a viewports array: names, and objects with or without the keys
ViewportItems ==
    { Text("desktop"), Text("mobile"), Text("watch"),
      Dict([device |-> Text("Custom"), width |-> 800, height |-> 600]),
      Dict([device |-> Number("7"),    width |-> 800, height |-> 600]),
      Dict([width |-> 800, height |-> 600]),
      Dict([device |-> Text("Custom"), height |-> 600]) }

Bodies ==
    { [viewports |-> <<>>] }
      \cup { [url |-> u] : u \in Urls }
      \cup { [url |-> u, viewports |-> v] :
                <<u, v>> \in Urls \X SeqsUpTo(ViewportItems, MaxViewports) }

Requests ==
    { [endpoint |-> e, data |-> b] :
        <<e, b>> \in {"capture_responsive", "capture_single"} \X Bodies }

\* what a call gives: a payload, None, or an exception that leaves it
Raise(exception) == [kind |-> "raise", exception |-> exception]
None == [kind |-> "None"]

\* "if result:"
truthy(value) == value.kind # "None"

\* create_error_response reads viewport_config['device'], ['width'] and
\* ['height'] (line 2000-2012) and calls viewport_config["device"].title()
\* (line 2050)
create_error_response_raises(config) ==
    \/ ~({"device", "width", "height"} \subseteq DOMAIN config)
    \/ config.device.type # "str"

create_error_response_call(config, error_message) ==
    IF ~({"device", "width", "height"} \subseteq DOMAIN config)
    THEN Raise("KeyError")
    ELSE IF config.device.type # "str" THEN Raise("AttributeError")
    ELSE create_error_response(config, error_message)

\* extract_real_website_data reaches requests.get: line 694 did not raise
reaches_fetch(config) == "device" \in DOMAIN config

\* extract_real_website_data reaches the walk: the fetch returned, and
\* line 725 found viewport_config['width'] and ['height']
reaches_walk(config, fetch) ==
    /\ reaches_fetch(config)
    /\ fetch = "ok"
    /\ {"width", "height"} \subseteq DOMAIN config

\* extract_real_website_data(url, viewport_config)
extract_real_website_data(url, config, fetch, proc) ==
    IF ~reaches_fetch(config) THEN Raise("KeyError")
    ELSE IF fetch = "fail"
    THEN create_error_response_call(config, "Network error")
    ELSE IF ~reaches_walk(config, fetch) \/ proc = "raise"
    THEN create_error_response_call(config, "Processing error")
    ELSE [ kind   |-> "real",
           device |-> config.device,
           width  |-> config.width,
           height |-> config.height ]

\* (history) the entry of fetchLog for one call of extract_real_website_data
log_entry(viewport, url, config, fetch, proc) ==
    [ viewport |-> viewport,
      url      |-> url,
      fetch    |-> fetch,
      proc     |-> IF reaches_walk(config, fetch) THEN proc ELSE "none" ]

\* a browser that starts (no build has one: line 161)
try_chromedriver_manager_starts == "driver"

\* _try_chromedriver_manager: every path ends in a raise (line 161)
try_chromedriver_manager == "raise"

\* setup_driver: the one attempt, its exception swallowed (line 82-90)
setup_driver ==
    IF try_chromedriver_manager = "raise" THEN "None"
    ELSE try_chromedriver_manager

\* capture_viewport on a fresh WebsiteCapture (self.driver is None); nav is
\* how driver.get / WebDriverWait / execute_script end when there is a driver
capture_viewport(url, config, nav, fetch, proc) ==
    IF setup_driver = "None"
    THEN LET r == extract_real_website_data(url, config, fetch, proc) IN
         IF r.kind = "raise" THEN None ELSE r
    ELSE IF nav = "fail" THEN None
    ELSE [ kind   |-> "browser",
           device |-> config.device,
           width  |-> config.width,
           height |-> config.height ]

\* jsonify(...), status: the reply of a handler
Reply(status, error, body) ==
    [status |-> status, error |-> error, body |-> body]

NoBody == [kind |-> "None"]

\* data.get('viewports', ['desktop', 'tablet', 'mobile'])
requested_viewports(data) ==
    get(data, "viewports", <<Text("desktop"), Text("tablet"), Text("mobile")>>)

\* line 2115-2125: the item names a preset or is a dict
is_captured_item(item) ==
    item.type = "dict" \/ item.val \in DOMAIN VIEWPORTS

viewport_config_of(item) ==
    IF item.type = "dict" THEN item.val ELSE VIEWPORTS[item.val]

\* viewport_name: the preset name, or f"{device}_{width}x{height}" with the
\* defaults 'unknown', 1440 and 900, kept as its three parts
viewport_name(item) ==
    IF item.type = "dict"
    THEN [ preset |-> "",
           device |-> get(item.val, "device", Text("unknown")).val,
           width  |-> get(item.val, "width", 1440),
           height |-> get(item.val, "height", 900) ]
    ELSE [ preset |-> item.val, device |-> "", width |-> 0, height |-> 0 ]

\* results[viewport_name] = result: a dict keeps the place of a key it has
store(dict, name, value) ==
    IF \E i \in DOMAIN dict : dict[i].name = name
    THEN [ i \in DOMAIN dict |->
             IF dict[i].name = name THEN [name |-> name, value |-> value]
             ELSE dict[i] ]
    ELSE Append(dict, [name |-> name, value |-> value])

InitHttp ==
    /\ request \in Requests
    /\ pc = "received"
    /\ idx = 0
    /\ results = <<>>
    /\ response = Reply(0, "", NoBody)
    /\ fetchLog = <<>>
    /\ doc = <<>>
    /\ viewport_config = VIEWPORTS.desktop
    /\ todo = <<>>
    /\ elements = <<>>
    /\ result = [kind |-> "none"]
    /\ fate = <<>>
    /\ depthStop = FALSE
    /\ countStop = FALSE
    /\ captures = <<>>

\* capture_responsive, line 2095-2111: the body is checked, results = {}
capture_responsive_validate ==
    /\ pc = "received"
    /\ request.endpoint = "capture_responsive"
    /\ IF "url" \notin DOMAIN request.data
       THEN /\ response' = Reply(400, "URL is required", NoBody)
            /\ pc' = "done"
            /\ idx' = idx
       ELSE IF invalid_url(request.data.url)
       THEN /\ response' = Reply(400, "Invalid URL format", NoBody)
            /\ pc' = "done"
            /\ idx' = idx
       ELSE /\ response' = response
            /\ pc' = "loop"
            /\ idx' = 1
    /\ results' = <<>>
    /\ UNCHANGED <<request, fetchLog, walkVars, captures>>

\* capture_responsive, line 2114-2135: one turn of the loop; an exception
\* ends the handler at line 2147-2149
capture_responsive_viewport ==
    /\ pc = "loop"
    /\ idx <= Len(requested_viewports(request.data))
    /\ \E fetch \in fetch_outcomes(request.data.url), proc \in {"ok", "raise"} :
         LET item   == requested_viewports(request.data)[idx]
             config == viewport_config_of(item)
             r      == extract_real_website_data(request.data.url, config,
                                                 fetch, proc)
         IN  IF ~is_captured_item(item)
             THEN /\ idx' = idx + 1
                  /\ UNCHANGED <<pc, results, response, fetchLog>>
             ELSE /\ fetchLog' =
                        IF reaches_fetch(config)
                        THEN Append(fetchLog,
                                    log_entry(idx, request.data.url, config,
                                              fetch, proc))
                        ELSE fetchLog
                  /\ IF r.kind = "raise"
                     THEN /\ response' = Reply(500, "Capture failed", NoBody)
                          /\ pc' = "done"
                          /\ UNCHANGED <<idx, results>>
                     ELSE /\ results' = IF truthy(r)
                                        THEN store(results, viewport_name(item), r)
                                        ELSE results
                          /\ idx' = idx + 1
                          /\ UNCHANGED <<pc, response>>
    /\ UNCHANGED <<request, walkVars, captures>>

\* capture_responsive, line 2137-2145: the reply after the loop
capture_responsive_respond ==
    /\ pc = "loop"
    /\ idx > Len(requested_viewports(request.data))
    /\ response' =
          IF results = <<>>
          THEN Reply(500, "Failed to capture any viewports", NoBody)
          ELSE Reply(200, "", [ kind            |-> "viewports",
                                url             |-> request.data.url,
                                viewports       |-> results,
                                total_viewports |-> Len(results) ])
    /\ pc' = "done"
    /\ UNCHANGED <<request, idx, results, fetchLog, walkVars, captures>>

\* capture_single, the whole handler
capture_single ==
    /\ pc = "received"
    /\ request.endpoint = "capture_single"
    /\ IF "url" \notin DOMAIN request.data
       THEN /\ response' = Reply(400, "URL is required", NoBody)
            /\ fetchLog' = fetchLog
       ELSE \E nav \in {"ok", "fail"},
               fetch \in fetch_outcomes(request.data.url),
               proc \in {"ok", "raise"} :
              LET r == capture_viewport(request.data.url, VIEWPORTS.desktop,
                                        nav, fetch, proc)
              IN  /\ response' = IF truthy(r) THEN Reply(200, "", r)
                                 ELSE Reply(500, "Capture failed", NoBody)
                  /\ fetchLog' =
                        IF setup_driver = "None"
                        THEN Append(fetchLog,
                                    log_entry(0, request.data.url,
                                              VIEWPORTS.desktop, fetch, proc))
                        ELSE fetchLog
    /\ pc' = "done"
    /\ UNCHANGED <<request, idx, results, walkVars, captures>>

NextHttp ==
    \/ capture_responsive_validate
    \/ capture_responsive_viewport
    \/ capture_responsive_respond
    \/ capture_single

SpecHttp == InitHttp /\ [][NextHttp]_vars

----------------------------------------------------------------------------
(* The legacy server, src/server.py: capture_website and its walker         *)
(* process_element / extract_element_data. It uses the variables of a      *)
(* request and of a walk: doc is the page the url holds.                    *)

\* src/server.py:134  "def process_element(elem, depth=0, max_depth=10)"
max_depth == 10
\* src/server.py:164  "elements = elements[:100]"
LegacyCap == 100
\* src/server.py:55  "text_content[:200]"
LegacyTextCap == 200

\* src/server.py:43
legacy_skip_tags ==
    {"script", "style", "meta", "link", "title", "head", "noscript"}

RECURSIVE joined_text(_, _)
\* the stripped strings of the nodes ns, the empty ones left out, joined
joined_text(d, ns) ==
    IF ns = <<>> THEN <<>>
    ELSE IF Len(ns) = 1 THEN strip(d[ns[1]].text)
    ELSE LET half == Len(ns) \div 2
         IN  joined_text(d, SubSeq(ns, 1, half))
               \o joined_text(d, SubSeq(ns, half + 1, Len(ns)))

\* element.get_text(strip=True): the text of all descendants
get_text_strip(d, n) ==
    joined_text(d, SelectSeq(Nodes(d),
                             LAMBDA m : ~IsTag(d, m) /\ IsAncestor(d, n, m)))

\* extract_element_data returns None: the tag is in the skip list
extract_element_data_none(d, n) == d[n].name \in legacy_skip_tags

\* extract_element_data, with the layout process_element gives the record
\* (line 141-150); node is not a field of the code's record
extract_element_data(d, n, depth, existing) ==
    LET text_content == get_text_strip(d, n) IN
    [ id          |-> <<"element", depth, d[n].name>>,
      tagName     |-> upper(d[n].name),
      textContent |-> Prefix(text_content, LegacyTextCap),
      layout      |-> [ x      |-> depth * 20,
                        y      |-> Len(existing) * 30,
                        width  |-> IF text_content # <<>>
                                   THEN IF Len(Prefix(text_content, LegacyTextCap)) * 8 < 800
                                        THEN Len(Prefix(text_content, LegacyTextCap)) * 8
                                        ELSE 800
                                   ELSE 200 - depth * 10,
                        height |-> IF text_content # <<>> THEN 25 ELSE 50 ],
      depth       |-> depth,
      node        |-> n ]

\* line 156-158: the recursive calls, for the children that are tags
process_children(d, n, depth) ==
    LET tags == SelectSeq(contents(d, n), LAMBDA c : IsTag(d, c)) IN
    [ i \in DOMAIN tags |-> <<tags[i], depth + 1>> ]

\* the pages the legacy walker is run on: the small documents, the deep
\* chains, and a <body> with about LegacyCap children
LegacyDocs ==
    SmallDocs
      \cup { ChainWide(chain, wide, chain, "span") :
                <<chain, wide>> \in ((MaxChain - 1)..MaxChain) \X {0, 1, 2} }
      \cup { ChainWide(0, wide, 0, "span") :
                wide \in (LegacyCap - 1)..(LegacyCap + 1) }

LegacyBodies == { [viewports |-> <<>>] } \cup { [url |-> u] : u \in Urls }

InitLegacy ==
    /\ request \in { [endpoint |-> "capture_website", data |-> b] :
                        b \in LegacyBodies }
    /\ IF "url" \in DOMAIN request.data /\ ~invalid_url(request.data.url)
       THEN doc \in LegacyDocs
       ELSE doc = <<>>
    /\ pc = "received"
    /\ idx = 0
    /\ results = <<>>
    /\ response = Reply(0, "", NoBody)
    /\ fetchLog = <<>>
    /\ viewport_config = VIEWPORTS.desktop
    /\ todo = <<>>
    /\ elements = <<>>
    /\ result = [kind |-> "none"]
    /\ fate = [n \in DOMAIN doc |-> "unvisited"]
    /\ depthStop = FALSE
    /\ countStop = FALSE
    /\ captures = <<>>

\* capture_website, line 81-90: the body is checked
capture_website_validate ==
    /\ pc = "received"
    /\ request.endpoint = "capture_website"
    /\ IF "url" \notin DOMAIN request.data
       THEN /\ response' = Reply(400, "URL is required", NoBody)
            /\ pc' = "done"
       ELSE IF invalid_url(request.data.url)
       THEN /\ response' = Reply(400, "Invalid URL format", NoBody)
            /\ pc' = "done"
       ELSE /\ response' = response
            /\ pc' = "fetch"
    /\ UNCHANGED <<request, idx, results, fetchLog, walkVars, captures>>

\* capture_website, line 105-131 and 177-179: the page is fetched and the
\* walk started at the body, or the RequestException is answered
capture_website_fetch ==
    /\ pc = "fetch"
    /\ \E fetch \in fetch_outcomes(request.data.url) :
         /\ fetchLog' = Append(fetchLog,
                               [viewport |-> 0, url |-> request.data.url,
                                fetch |-> fetch, proc |-> "none"])
         /\ IF fetch = "fail"
            THEN /\ response' = Reply(400, "Failed to fetch website", NoBody)
                 /\ pc' = "done"
                 /\ todo' = todo
            ELSE /\ response' = response
                 /\ pc' = "walk"
                 /\ todo' = << <<1, 0>> >>
    /\ UNCHANGED <<request, idx, results, doc, viewport_config, elements,
                   result, fate, depthStop, countStop, captures>>

\* process_element, line 135-136: "if depth > max_depth: return"
process_element_too_deep ==
    /\ pc = "walk" /\ todo # <<>>
    /\ LET n == todo[1][1]  depth == todo[1][2] IN
        /\ depth > max_depth
        /\ todo' = Tail(todo)
        /\ fate' = [fate EXCEPT ![n] = "budget"]
        /\ depthStop' = TRUE
    /\ UNCHANGED <<doc, viewport_config, elements, result, countStop, httpVars, captures>>

\* process_element for a tag of the skip list: no record, and the children
\* are processed all the same
process_element_skipped ==
    /\ pc = "walk" /\ todo # <<>>
    /\ LET n == todo[1][1]  depth == todo[1][2] IN
        /\ depth <= max_depth
        /\ extract_element_data_none(doc, n)
        /\ todo' = process_children(doc, n, depth) \o Tail(todo)
        /\ fate' = [fate EXCEPT ![n] = "skiptag"]
    /\ UNCHANGED <<doc, viewport_config, elements, result, depthStop,
                   countStop, httpVars, captures>>

\* process_element for any other tag: the record is appended, then the
\* children are processed
process_element_append ==
    /\ pc = "walk" /\ todo # <<>>
    /\ LET n == todo[1][1]  depth == todo[1][2] IN
        /\ depth <= max_depth
        /\ ~extract_element_data_none(doc, n)
        /\ elements' = Append(elements,
                              extract_element_data(doc, n, depth, elements))
        /\ todo' = process_children(doc, n, depth) \o Tail(todo)
        /\ fate' = [fate EXCEPT ![n] = "appended"]
    /\ UNCHANGED <<doc, viewport_config, result, depthStop, countStop,
                   httpVars, captures>>

\* capture_website, line 163-175: the list is cut and returned
capture_website_respond ==
    /\ pc = "walk" /\ todo = <<>>
    /\ response' = Reply(200, "", [ kind     |-> "page",
                                    url      |-> request.data.url,
                                    elements |-> Prefix(elements, LegacyCap) ])
    /\ pc' = "done"
    /\ UNCHANGED <<request, idx, results, fetchLog, walkVars, captures>>

NextLegacy ==
    \/ capture_website_validate
    \/ capture_website_fetch
    \/ process_element_too_deep
    \/ process_element_skipped
    \/ process_element_append
    \/ capture_website_respond

SpecLegacy == InitLegacy /\ [][NextLegacy]_vars

----------------------------------------------------------------------------
(* Claims about the capture endpoints *)

Answered == pc = "done"

HasUrl == "url" \in DOMAIN request.data

\* the turns of the capture_responsive loop that got to requests.get and
\* had it fail
FetchFailed(i) ==
    \E k \in DOMAIN fetchLog :
        fetchLog[k].viewport = i /\ fetchLog[k].fetch = "fail"

\* a requested viewport as section 6 describes one: a preset name, or an
\* object with a width, a height and a device label
WellFormed(item) ==
    \/ item.type = "str" /\ item.val \in DOMAIN VIEWPORTS
    \/ /\ item.type = "dict"
       /\ {"device", "width", "height"} \subseteq DOMAIN item.val
       /\ item.val.device.type = "str"

Returned(name) ==
    /\ response.status = 200
    /\ \E i \in DOMAIN response.body.viewports :
          response.body.viewports[i].name = name

\* C3: on both capture endpoints a url without a scheme or without a network
\* location is answered 400 "Invalid URL format", and nothing is fetched
\* for it.
C3_InvalidUrlRejected ==
    (Answered /\ HasUrl /\ invalid_url(request.data.url)) =>
        /\ response.status = 400
        /\ response.error = "Invalid URL format"
        /\ fetchLog = <<>>

\* C4: in capture_responsive, when the fetch of one requested viewport has
\* failed, every other well-formed requested viewport still has its entry
\* in the returned viewports map, and the entries are in request order.
C4_FetchFailureDoesNotAbort ==
    (Answered /\ request.endpoint = "capture_responsive") =>
        \A i \in DOMAIN fetchLog :
            fetchLog[i].fetch = "fail" =>
                LET items == requested_viewports(request.data) IN
                /\ \A j \in DOMAIN items :
                      (j # fetchLog[i].viewport /\ WellFormed(items[j]))
                          => Returned(viewport_name(items[j]))
                /\ response.status = 200 =>
                      \A a, b \in DOMAIN response.body.viewports :
                          a < b =>
                             \E j, k \in DOMAIN items :
                                /\ j < k
                                /\ viewport_name(items[j])
                                      = response.body.viewports[a].name
                                /\ viewport_name(items[k])
                                      = response.body.viewports[b].name

\* the capture of some requested viewport succeeded: its page was fetched
\* and processed
SomeCaptureSucceeded ==
    \E k \in DOMAIN fetchLog :
        fetchLog[k].fetch = "ok" /\ fetchLog[k].proc = "ok"

\* C5: capture_responsive with a valid url answers 500 if the capture of
\* every requested viewport failed, and 200 with the viewports map if the
\* capture of at least one succeeded.
C5_AllFailed500 ==
    (Answered /\ request.endpoint = "capture_responsive" /\ HasUrl
        /\ ~invalid_url(request.data.url)) =>
        /\ ~SomeCaptureSucceeded => response.status = 500
        /\ SomeCaptureSucceeded =>
              response.status = 200 /\ response.body.kind = "viewports"

----------------------------------------------------------------------------
(* Claims about the record lists of both walkers *)

\* the record made from node n, if there is one
RecordOf(n) == { i \in DOMAIN elements : elements[i].node = n }

\* the root record has depth 0, every other record has the depth of its
\* parent's record plus one, that record being in the list, and no record is
\* deeper than `limit`
DepthStructure(limit) ==
    \A i \in DOMAIN elements :
        LET n == elements[i].node IN
        /\ doc[n].parent = 0 => elements[i].depth = 0
        /\ doc[n].parent # 0 =>
              \E j \in RecordOf(doc[n].parent) :
                  elements[i].depth = elements[j].depth + 1
        /\ elements[i].depth <= limit

\* C12: in every record list the root record has depth 0, every other
\* record has depth exactly one more than the record of its parent, which
\* is in the list too, and no record is deeper than the walker's maximum
\* depth. Stated here for the lists of the legacy walker process_element.
C12_LegacyDepthStructure == DepthStructure(max_depth)

\* the same statement for the lists of extract_html_elements
C12_StaticDepthStructure == DepthStructure(MaxDepth)

RECURSIVE AncestorAt(_, _, _)
\* n itself or its ancestor at depth k
AncestorAt(d, n, k) ==
    IF Depth(d, n) <= k THEN n ELSE AncestorAt(d, d[n].parent, k)

RECURSIVE Diverge(_, _, _)
\* for two nodes of one depth in different subtrees: their ancestors (or
\* themselves) that are children of one parent
Diverge(d, x, y) ==
    IF d[x].parent = d[y].parent THEN <<x, y>>
    ELSE Diverge(d, d[x].parent, d[y].parent)

\* x comes before y in the pre-order of the document tree: x is an ancestor
\* of y, or x lies in the subtree of an earlier sibling than y does
TreeBefore(d, x, y) ==
    \/ IsAncestor(d, x, y)
    \/ /\ x # y
       /\ ~IsAncestor(d, y, x)
       /\ LET k == IF Depth(d, x) < Depth(d, y) THEN Depth(d, x) ELSE Depth(d, y)
              p == Diverge(d, AncestorAt(d, x, k), AncestorAt(d, y, k))
          IN  \* contents lists the children of a node by their index
              p[1] < p[2]

RecordsInTreeOrder ==
    \A i, j \in DOMAIN elements :
        i < j => TreeBefore(doc, elements[i].node, elements[j].node)

\* C13: the record list of extract_html_elements is in pre-order: a record
\* comes after the record of its parent, before the records of its parent's
\* later children and of their subtrees, and the subtrees of siblings come
\* in document order.
C13_PreOrder ==
    /\ RecordsInTreeOrder
    /\ \A i \in DOMAIN elements :
          doc[elements[i].node].parent # 0 =>
              \E j \in RecordOf(doc[elements[i].node].parent) : j < i

\* C13 witness: a finished walk that recorded two siblings, a child of the
\* first one, and their parent.
C13_Witness ==
    /\ Walked
    /\ \E a, b, c \in DOMAIN doc :
          /\ doc[a].parent = doc[b].parent /\ a < b
          /\ doc[c].parent = a
          /\ Recorded(a) /\ Recorded(b) /\ Recorded(c)
          /\ Recorded(doc[a].parent)

\* the lists of the legacy walker process_element are in the order of the
\* tree as well
C13_LegacyTreeOrder == pc \in {"walk", "done"} => RecordsInTreeOrder


\* the url is well formed and every fetch the handler made for it failed
Unreachable ==
    /\ Answered
    /\ HasUrl
    /\ ~invalid_url(request.data.url)
    /\ fetchLog # <<>>
    /\ \A k \in DOMAIN fetchLog : fetchLog[k].fetch = "fail"

\* C15: for a well-formed url that cannot be fetched, POST /api/capture
\* answers 500 and POST /api/capture-responsive answers 200 with the
\* fallback payload of every viewport it tried; the handler always answers
\* (no exception leaves it).
C15_UnreachableUrl ==
    Unreachable =>
        /\ response.status # 0
        /\ request.endpoint = "capture_single" => response.status = 500
        /\ (request.endpoint = "capture_responsive"
              /\ \A i \in DOMAIN requested_viewports(request.data) :
                    WellFormed(requested_viewports(request.data)[i])) =>
              /\ response.status = 200
              /\ \A i \in DOMAIN response.body.viewports :
                    response.body.viewports[i].value.kind = "mock"

\* C15 on the first server (src/server.py), whose /api/capture is
\* capture_website
C15_LegacyUnreachableUrl ==
    (Unreachable /\ request.endpoint = "capture_website") =>
        response.status = 500

\* the part of C15 that is about /api/capture-responsive and about
\* exceptions
C15_ResponsiveFallsBack ==
    Unreachable =>
        /\ response.status # 0
        /\ (request.endpoint = "capture_responsive"
              /\ \A i \in DOMAIN requested_viewports(request.data) :
                    WellFormed(requested_viewports(request.data)[i])) =>
              /\ response.status = 200
              /\ \A i \in DOMAIN response.body.viewports :
                    response.body.viewports[i].value.kind = "mock"

\* the value of the last font-size declaration of node n's style attribute
\* (<<>> when there is none)
InlineFontSize(n) ==
    LET sizes == SelectSeq(doc[n].style, LAMBDA rule : rule[1] = "font-size") IN
    IF sizes = <<>> THEN <<>> ELSE sizes[Len(sizes)][2]

\* C16: the font size of every text element of the design analysis is the
\* default of its tag (h1 32, h2 28, small 12, otherwise 16) when its style
\* attribute has no font-size, and the declared font-size when it has one.
C16_DefaultFontSize ==
    result.kind = "real" =>
        \A i \in DOMAIN result.design_analysis.textElements :
            LET t == result.design_analysis.textElements[i] IN
            t.fontSize =
                IF InlineFontSize(t.node) = <<>>
                THEN parse_pixel_value(get_default_font_size(doc[t.node].name))
                ELSE parse_pixel_value(InlineFontSize(t.node))

\* the part of C16 that is about the inline declaration
C16_InlineFontSizeOverrides ==
    result.kind = "real" =>
        \A i \in DOMAIN result.design_analysis.textElements :
            LET t == result.design_analysis.textElements[i] IN
            InlineFontSize(t.node) # <<>> =>
                t.fontSize = parse_pixel_value(InlineFontSize(t.node))

\* node n's style attribute is the padding shorthand with one value, alone
OnlyPaddingShorthand(n) ==
    /\ Len(doc[n].style) = 1
    /\ doc[n].style[1][1] = "padding"
    /\ Len(split_ws(doc[n].style[1][2])) = 1

\* C17: the rectangle of a container whose style attribute is only
\* "padding: v" has paddingTop, paddingRight, paddingBottom and paddingLeft
\* all equal to the number of v.
C17_PaddingShorthand ==
    result.kind = "real" =>
        \A i \in DOMAIN result.design_analysis.rectangles :
            LET r == result.design_analysis.rectangles[i] IN
            OnlyPaddingShorthand(r.node) =>
                \A side \in {r.paddingTop, r.paddingRight,
                             r.paddingBottom, r.paddingLeft} :
                    side = parse_pixel_value(doc[r.node].style[1][2])

\* what the code does with the longhands: each side of the rectangle is the
\* number of the last declaration of that side's own property
C17_PaddingLonghand ==
    result.kind = "real" =>
        \A i \in DOMAIN result.design_analysis.rectangles :
            LET r == result.design_analysis.rectangles[i]
                tops == SelectSeq(doc[r.node].style,
                                  LAMBDA rule : rule[1] = "padding-top")
            IN  tops # <<>> =>
                    r.paddingTop = parse_pixel_value(tops[Len(tops)][2])

\* the lines the design analysis has for node n
LinesOf(n) ==
    { i \in DOMAIN result.design_analysis.lines :
        result.design_analysis.lines[i].node = n }

\* C18: an <hr> that the walk visited within its budget has exactly one
\* line among the shapes of the design analysis.
C18_HrYieldsOneLine ==
    result.kind = "real" =>
        \A n \in DOMAIN doc :
            (doc[n].name = "hr" /\ fate[n] \notin {"unvisited", "budget"}) =>
                Cardinality(LinesOf(n)) = 1

\* the border shorthand of a record that is set: the top one, else the
\* bottom one
BorderSet(element) ==
    IF get(element.visual, "borderTop", none_) # none_
    THEN get(element.visual, "borderTop", none_)
    ELSE get(element.visual, "borderBottom", none_)

\* C19: a record whose top or bottom border is set has exactly one line; its
\* length is the record's width, its thickness the number of the first
\* token of the shorthand that is set and its colour the last token of it.
C19_BorderLine ==
    result.kind = "real" =>
        \A i \in DOMAIN elements :
            split_ws(BorderSet(elements[i])) \notin { <<>>, <<none_>> } =>
                /\ Cardinality(LinesOf(elements[i].node)) = 1
                /\ \A j \in LinesOf(elements[i].node) :
                     LET l == result.design_analysis.lines[j]
                         tokens == split_ws(BorderSet(elements[i]))
                     IN  /\ l.length = elements[i].position.width
                         /\ l.thickness = parse_pixel_value(tokens[1])
                         /\ l.color = tokens[Len(tokens)]

\* the part of C19 that is about the top border, for the shorthands whose
\* colour is written #hex or rgb(...)
C19_BorderTopLine ==
    result.kind = "real" =>
        \A i \in DOMAIN elements :
            get(elements[i].visual, "borderTop", none_) # none_ =>
                /\ Cardinality(LinesOf(elements[i].node)) = 1
                /\ \A j \in LinesOf(elements[i].node) :
                     LET l == result.design_analysis.lines[j]
                         tokens == split_ws(elements[i].visual.borderTop)
                     IN  /\ l.length = elements[i].position.width
                         /\ l.thickness = parse_pixel_value(tokens[1])
                         /\ l.color = tokens[Len(tokens)]

\* the composite key of a typography record
Triple(typo) == <<typo.fontFamily, typo.fontSize, typo.fontWeight>>

\* the first record of the list whose typography has the triple
FirstWith(triple) ==
    CHOOSE i \in DOMAIN elements :
        /\ Triple(elements[i].typography) = triple
        /\ \A j \in 1..(i - 1) : Triple(elements[j].typography) # triple

\* C23: text_styles has one typography record for every distinct triple
\* (fontFamily, fontSize, fontWeight) of the records, the one of the first
\* record with that triple, in the order the triples are first seen.
C23_OnePerTriple ==
    result.kind = "real" =>
        LET styles  == result.text_styles
            triples == { Triple(elements[i].typography) : i \in DOMAIN elements }
        IN  /\ Len(styles) = Cardinality(triples)
            /\ \A t \in triples :
                  \E a \in DOMAIN styles :
                      styles[a] = elements[FirstWith(t)].typography
            /\ \A a, b \in DOMAIN styles :
                  a < b => FirstWith(Triple(styles[a])) < FirstWith(Triple(styles[b]))

\* what holds of the code: the same with the identifier text in the place of
\* the triple
C23_OnePerIdentifier ==
    result.kind = "real" =>
        LET styles == result.text_styles
            ids    == { identifier(elements[i].typography) : i \in DOMAIN elements }
        IN  /\ Len(styles) = Cardinality(ids)
            /\ \A a, b \in DOMAIN styles :
                  a # b => identifier(styles[a]) # identifier(styles[b])
            /\ \A i \in DOMAIN elements :
                  \E a \in DOMAIN styles :
                      identifier(styles[a]) = identifier(elements[i].typography)

RECURSIVE Lowercased(_)
\* a colour text with its capital letters made small (the letters of the
\* colour texts are the hexadecimal ones and those of rgb and rgba)
Lowercased(s) ==
    IF s = <<>> THEN <<>>
    ELSE << CASE s[1] = "A" -> "a" [] s[1] = "B" -> "b" [] s[1] = "C" -> "c"
              [] s[1] = "D" -> "d" [] s[1] = "E" -> "e" [] s[1] = "F" -> "f"
              [] s[1] = "R" -> "r" [] s[1] = "G" -> "g"
              [] OTHER -> s[1] >> \o Lowercased(Tail(s))

\* C24: neither the colors list of the payload nor the colours of the
\* design analysis hold two entries that are equal after lowercasing.
C24_ColorsDeduplicated ==
    result.kind = "real" =>
        /\ \A a, b \in DOMAIN result.colors :
              a # b => Lowercased(result.colors[a]) # Lowercased(result.colors[b])
        /\ \A a, b \in DOMAIN result.design_analysis.colors :
              a # b => Lowercased(result.design_analysis.colors[a].hex)
                          # Lowercased(result.design_analysis.colors[b].hex)

\* what holds of the code: no two entries are the same text
C24_ColorsDistinct ==
    result.kind = "real" =>
        /\ \A a, b \in DOMAIN result.colors :
              a # b => result.colors[a] # result.colors[b]
        /\ \A a, b \in DOMAIN result.design_analysis.colors :
              a # b => result.design_analysis.colors[a].hex
                          # result.design_analysis.colors[b].hex

\* a record the claim counts as interactive: a button, a or input element,
\* one with an onclick attribute, one with the pointer cursor
Interactive(element) ==
    \/ element.tagName \in {"BUTTON", "A", "INPUT"}
    \/ "onclick" \in DOMAIN element.attributes
    \/ get(element.visual, "cursor", <<>>) = <<"p","o","i","n","t","e","r">>

\* C25: summary.hasInteractiveElements is true exactly when some record is
\* a button, a or input element, has an onclick attribute or has the
\* pointer cursor.
C25_HasInteractiveElements ==
    result.kind = "real" =>
        (result.design_analysis.summary.hasInteractiveElements
            <=> \E i \in DOMAIN elements : Interactive(elements[i]))

\* what holds of the code: the flag is about the three tags only
C25_InteractiveByTag ==
    result.kind = "real" =>
        (result.design_analysis.summary.hasInteractiveElements
            <=> \E i \in DOMAIN elements :
                   elements[i].tagName \in {"BUTTON", "A", "INPUT"})

\* the rectangle made for the record of node n
RectanglesOf(n) ==
    SelectSeq(result.design_analysis.rectangles, LAMBDA r : r.node = n)

IsFlex(element) == get(element.visual, "display", <<>>) = <<"f","l","e","x">>

\* C26: a rectangle's layoutMode is NONE when the display is not flex (then
\* both alignments are MIN and the spacing is 0); when it is flex, the mode
\* is the page script's figmaLayoutMode of the flex-direction, row when none
\* is given: HORIZONTAL for row and row-reverse, VERTICAL for column and
\* column-reverse.
C26_LayoutMode ==
    result.kind = "real" =>
        \A i \in DOMAIN elements :
            \A k \in DOMAIN RectanglesOf(elements[i].node) :
                LET r == RectanglesOf(elements[i].node)[k] IN
                IF IsFlex(elements[i])
                THEN r.layoutMode =
                        figmaLayoutMode(get(elements[i].visual, "flexDirection",
                                            <<"r","o","w">>))
                ELSE /\ r.layoutMode = "NONE"
                     /\ r.primaryAxisAlignItems = "MIN"
                     /\ r.counterAxisAlignItems = "MIN"
                     /\ r.itemSpacing = 0

\* what holds of the code: without flex the mode is NONE, with flex it is
\* HORIZONTAL for row or no direction and VERTICAL for every other value
C26_LayoutModeRowOnly ==
    result.kind = "real" =>
        \A i \in DOMAIN elements :
            \A k \in DOMAIN RectanglesOf(elements[i].node) :
                LET r == RectanglesOf(elements[i].node)[k] IN
                IF IsFlex(elements[i])
                THEN r.layoutMode = "HORIZONTAL"
                        <=> get(elements[i].visual, "flexDirection",
                                <<"r","o","w">>) = <<"r","o","w">>
                ELSE /\ r.layoutMode = "NONE"
                     /\ r.primaryAxisAlignItems = "MIN"
                     /\ r.counterAxisAlignItems = "MIN"
                     /\ r.itemSpacing = 0

\* the record has text that is not all whitespace
HasText(element) ==
    \E k \in DOMAIN element.textContent : ~IsSpace(element.textContent[k])

\* how many of the first i records have text
TextRank(i) == Cardinality({ j \in 1..i : HasText(elements[j]) })

\* C27: in the design model every record with non-whitespace text has
\* exactly one text node, the text nodes are in the order of their records,
\* a structural container with text has its rectangle as well, and every
\* child of such an element was visited by the walker.
C27_TextTakesPriority ==
    result.kind = "real" =>
        LET T == result.design_analysis.textElements IN
        /\ Len(T) = TextRank(Len(elements))
        /\ \A i \in DOMAIN elements :
               HasText(elements[i]) =>
                   /\ T[TextRank(i)].node = elements[i].node
                   /\ T[TextRank(i)].tag = elements[i].tagName
                   /\ T[TextRank(i)].content = strip(elements[i].textContent)
                   /\ is_rectangle(elements[i]) =>
                          Len(RectanglesOf(elements[i].node)) = 1
                   /\ \A c \in children(doc, elements[i].node) :
                          fate[c] # "unvisited"

\* a container with text and with a child element that has a record too,
\* and a second record with text after it
C27_Witness ==
    /\ result.kind = "real"
    /\ \E i \in DOMAIN elements :
           /\ HasText(elements[i])
           /\ is_rectangle(elements[i])
           /\ Len(RectanglesOf(elements[i].node)) = 1
           /\ \E c \in children(doc, elements[i].node) :
                  fate[c] = "appended"
    /\ Len(result.design_analysis.textElements) >= 2

\* the colour is a whole word of the border value: it is the border's colour
IsBorderColor(color, border) ==
    \E i \in 1..(Len(border) - Len(color) + 1) :
        /\ SubSeq(border, i, i + Len(color) - 1) = color
        /\ i = 1 \/ IsSpace(border[i - 1])
        /\ i + Len(color) > Len(border) \/ IsSpace(border[i + Len(color)])

\* the records that use the colour as their text colour, as their
\* background, as the colour of their border
UsesOf(color) ==
    [ text       |-> { i \in DOMAIN elements :
                         get(elements[i].visual, "color", <<>>) = color },
      background |-> { i \in DOMAIN elements :
                         get(elements[i].visual, "backgroundColor", <<>>)
                             = color },
      border     |-> { i \in DOMAIN elements :
                         IsBorderColor(color, get(elements[i].visual, "border",
                                                  <<>>)) } ]

\* C28: in every colour entry the usage is a subset of {text, background,
\* border}, a kind is in it only if some record uses the colour in that role
\* (border: as the colour of its border, not as a part of another colour),
\* the usage is empty exactly when the count is 0, and the count is the
\* number of these uses.
C28_ColorUsage ==
    result.kind = "real" =>
        \A k \in DOMAIN result.design_analysis.colors :
            LET entry == result.design_analysis.colors[k]
                uses  == UsesOf(entry.hex)
            IN  /\ entry.usage \subseteq {"text", "background", "border"}
                /\ \A kind \in entry.usage : uses[kind] # {}
                /\ entry.usage = {} <=> entry.count = 0
                /\ entry.count = Cardinality(uses.text)
                                   + Cardinality(uses.background)
                                   + Cardinality(uses.border)

\* what holds of the code: the same with 'border' for every record whose
\* border value contains the colour's text anywhere
C28_ColorUsageBySubstring ==
    result.kind = "real" =>
        \A k \in DOMAIN result.design_analysis.colors :
            LET entry == result.design_analysis.colors[k]
                uses  == UsesOf(entry.hex)
                inBorder == { i \in DOMAIN elements :
                                occurs_in(entry.hex,
                                          get(elements[i].visual, "border", <<>>)) }
            IN  /\ entry.usage \subseteq {"text", "background", "border"}
                /\ "text" \in entry.usage <=> uses.text # {}
                /\ "background" \in entry.usage <=> uses.background # {}
                /\ "border" \in entry.usage <=> inBorder # {}
                /\ entry.usage = {} <=> entry.count = 0
                /\ entry.count = Cardinality(uses.text)
                                   + Cardinality(uses.background)
                                   + Cardinality(inBorder)

\* C29: the i-th record of the static walker, counted from 0, is at x = 20
\* and y = 25 * i; so y grows strictly along the records and no two records
\* of one capture are at the same place.
C29_SequentialPositions ==
    /\ \A i \in DOMAIN elements :
           /\ elements[i].position.x = 20
           /\ elements[i].position.y = 25 * (i - 1)
    /\ \A i, j \in DOMAIN elements :
           i < j =>
               /\ elements[i].position.y < elements[j].position.y
               /\ <<elements[i].position.x, elements[i].position.y>>
                    # <<elements[j].position.x, elements[j].position.y>>

\* records of nested elements and of siblings, after a node that got no record
C29_Witness ==
    /\ Walked
    /\ Len(elements) >= 3
    /\ \E i, j \in DOMAIN elements :
           /\ i < j
           /\ elements[i].depth = elements[j].depth
           /\ elements[j].node > j
    /\ \E i \in DOMAIN elements : elements[i].depth >= 2

\* an explicit viewport without device, width or height
OmitsKey(item) ==
    /\ item.type = "dict"
    /\ ~({"device", "width", "height"} \subseteq DOMAIN item.val)

\* a finished capture_responsive request with a valid url, one of whose
\* viewports omits a key
PartialViewportRequest ==
    /\ pc = "done"
    /\ request.endpoint = "capture_responsive"
    /\ "url" \in DOMAIN request.data
    /\ ~invalid_url(request.data.url)
    /\ \E i \in DOMAIN requested_viewports(request.data) :
           OmitsKey(requested_viewports(request.data)[i])

\* C30: in capture_responsive an explicit viewport that omits device, width
\* or height does not abort the request: the reply has status 200 and holds
\* an entry for every requested viewport that is a preset or an object, the
\* partial one under its name of defaults ('unknown', 1440, 900). Requests
\* whose devices are all strings: a device that is not a string is another
\* matter.
C30_PartialViewportHandled ==
    ( /\ PartialViewportRequest
      /\ \A i \in DOMAIN requested_viewports(request.data) :
             LET item == requested_viewports(request.data)[i] IN
             (item.type = "dict" /\ "device" \in DOMAIN item.val)
                 => item.val.device.type = "str" )
    => /\ response.status = 200
       /\ \A i \in DOMAIN requested_viewports(request.data) :
              LET item == requested_viewports(request.data)[i] IN
              is_captured_item(item) =>
                  \E k \in DOMAIN response.body.viewports :
                      response.body.viewports[k].name = viewport_name(item)

\* what holds of the code: such a request always ends with status 500
C30_PartialViewportAborts ==
    PartialViewportRequest =>
        /\ response.status = 500
        /\ response.error = "Capture failed"
-----------------------------------------------------------------------------
(* Two captures served at the same time (Flask serves each request on its   *)
(* own thread).  Every call of extract_real_website_data has its own locals *)
(* (line 692-781): the parsed document, the viewport and the list elements  *)
(* made at line 727.  One step of a capture is one call of                  *)
(* extract_html_elements.                                                   *)

Captures == {1, 2}

\* the pages the two captures fetch
PairDocs ==
    { << Tag("body", 0, <<>>), Tag("div", 1, <<>>), Str(<<" ","H","i"," ">>, 2) >>,
      << Tag("body", 0, <<>>), Tag("span", 1, <<>>), Str(<<"H","i">>, 2),
         Tag("div", 1, <<>>) >>,
      << Tag("body", 0, <<>>), Tag("img", 1, <<>>), Tag("title", 1, <<>>) >> }

\* a slip of line 727: one list kept for all captures
collector_shared(c) == 1

\* "elements = []" (line 727): the list a capture appends to is its own
collector(c) == c

\* one call extract_html_elements(element, elements, depth, viewport_config,
\* url) of line 810-868: what it leaves of the pending calls and of the list
extract_html_elements(d, config, calls, elems) ==
    LET n == calls[1][1]  depth == calls[1][2] IN
    IF \/ budget_exceeded(depth, elems)
       \/ ~IsTag(d, n)
       \/ is_skip_tag(d[n].name)
       \/ is_empty_leaf(d, n)
    THEN [ todo |-> Tail(calls), elements |-> elems ]
    ELSE [ todo     |-> child_calls(d, n, depth) \o Tail(calls),
           elements |-> Append(elems, element_data(d, n, depth, elems, config)) ]

\* line 747-790: what extract_real_website_data returns for the walked list
payload(config, elems, real_colors) ==
    IF create_design_analysis_raises(elems)
    THEN create_error_response(config, "Processing error")
    ELSE [ kind            |-> "real",
           device          |-> config.device,
           width           |-> config.width,
           height          |-> config.height,
           elements        |-> Prefix(elems, 100),
           text_styles     |-> extract_typography_data(elems),
           colors          |-> real_colors,
           design_analysis |-> create_design_analysis(elems, real_colors) ]

\* the list of a capture that runs with no other capture beside it
RECURSIVE walk_alone(_, _, _, _)
walk_alone(d, config, calls, elems) ==
    IF calls = <<>> THEN elems
    ELSE LET s == extract_html_elements(d, config, calls, elems) IN
         walk_alone(d, config, s.todo, s.elements)

InitPair ==
    /\ captures \in [ Captures -> { [ doc             |-> d,
                                      viewport_config |-> v,
                                      pc              |-> "start",
                                      todo            |-> <<>>,
                                      elements        |-> <<>>,
                                      result          |-> [kind |-> "none"],
                                      overlap         |-> FALSE ] :
                                    d \in PairDocs, v \in Viewports } ]
    /\ doc = <<>>
    /\ viewport_config = VIEWPORTS.desktop
    /\ todo = <<>>
    /\ elements = <<>>
    /\ result = [kind |-> "none"]
    /\ fate = <<>>
    /\ depthStop = FALSE
    /\ countStop = FALSE
    /\ request = [endpoint |-> "none"]
    /\ pc = "none"
    /\ idx = 0
    /\ results = <<>>
    /\ response = [status |-> 0]
    /\ fetchLog = <<>>

\* line 726-728: "elements = []", then the walk starts at the body
capture_start(c) ==
    /\ captures[c].pc = "start"
    /\ captures' = [captures EXCEPT ![c].pc = "walk",
                                    ![c].todo = << <<1, 0>> >>]
    /\ UNCHANGED <<walkVars, httpVars>>

\* (history) capture c appends while another capture holds records
overlaps(c) ==
    \E o \in Captures \ {c} :
        captures[o].pc = "walk" /\ captures[collector(o)].elements # <<>>

\* one call of extract_html_elements of capture c
capture_visit(c) ==
    /\ captures[c].pc = "walk"
    /\ captures[c].todo # <<>>
    /\ LET s == extract_html_elements(captures[c].doc,
                                      captures[c].viewport_config,
                                      captures[c].todo,
                                      captures[collector(c)].elements)
           grew == s.elements # captures[collector(c)].elements
       IN  captures' =
             [ o \in Captures |->
                [ captures[o] EXCEPT
                    !.todo     = IF o = c THEN s.todo ELSE @,
                    !.elements = IF o = collector(c) THEN s.elements ELSE @,
                    !.overlap  = IF o = c THEN @ \/ (grew /\ overlaps(c))
                                 ELSE @ ] ]
    /\ UNCHANGED <<walkVars, httpVars>>

\* line 730-790: the walk is over, the payload is made and returned
capture_return(c) ==
    /\ captures[c].pc = "walk"
    /\ captures[c].todo = <<>>
    /\ \E real_colors \in list_of(extract_page_colors(captures[c].doc)) :
         captures' = [captures EXCEPT
                        ![c].pc = "done",
                        ![c].result = payload(captures[c].viewport_config,
                                              captures[collector(c)].elements,
                                              real_colors)]
    /\ UNCHANGED <<walkVars, httpVars>>

NextPair ==
    \E c \in Captures :
        \/ capture_start(c)
        \/ capture_visit(c)
        \/ capture_return(c)

SpecPair == InitPair /\ [][NextPair]_vars

\* the list capture c alone gets for its page and its viewport
Alone(c) ==
    walk_alone(captures[c].doc, captures[c].viewport_config, << <<1, 0>> >>, <<>>)

\* C14: under every interleaving of two captures the list of a capture holds
\* only its own records (it is a prefix of the list the capture gets when it
\* runs alone) and the payload it returns is the payload it returns alone
C14_CapturesShareNothing ==
    \A c \in DOMAIN captures :
        /\ captures[c].elements = Prefix(Alone(c), Len(captures[c].elements))
        /\ captures[c].pc = "done" =>
               \E real_colors \in list_of(extract_page_colors(captures[c].doc)) :
                   captures[c].result = payload(captures[c].viewport_config,
                                                Alone(c), real_colors)

\* both captures returned records, each appended while the other held some,
\* and the two payloads differ
C14_Witness ==
    /\ DOMAIN captures = Captures
    /\ \A c \in Captures :
        /\ captures[c].pc = "done"
        /\ captures[c].overlap
        /\ captures[c].result.kind = "real"
        /\ captures[c].result.elements # <<>>
    /\ captures[1].result # captures[2].result
-----------------------------------------------------------------------------
(* The length parsers on their own: parse_pixel_value of                    *)
(* src/server_enhanced.py and parse_css_value of src/server.py, applied to  *)
(* one CSS value.  Numbers are in thousandths.                              *)

\* parse_css_value (src/server.py:17-22): the same test and the same regular
\* expression as parse_pixel_value
parse_css_value(value) ==
    IF value = <<>> \/ value = <<"a", "u", "t", "o">> THEN 0
    ELSE LET digits == { i \in DOMAIN value : IsDigit(value[i]) } IN
         IF digits = {} THEN 0
         ELSE NumberValue(value, CHOOSE i \in digits : \A j \in digits : i <= j)

\* CSS values: a sign, digits, a fraction and a unit, and words
Lengths ==
    { sign \o int \o frac \o unit :
        <<sign, int, frac, unit>> \in
            { <<>>, <<"-">>, <<"+">>, <<" ">> }
              \X { <<"0">>, <<"3">>, <<"1","6">>, <<"1","2","0">> }
              \X { <<>>, <<".","5">>, <<".","2","5">>, <<".">> }
              \X { <<"p","x">>, <<"e","m">>, <<>>, <<"%">> } }
    \cup { <<>>, <<"a","u","t","o">>, <<"n","o","n","e">>, <<"p","x">>,
           <<"-">>, <<"-","p","x">>, <<"a","-","1","p","x">> }

\* re.match(r'rgba?\((\d+),\s*(\d+),\s*(\d+)(?:,\s*([\d.]+))?\)', s): the
\* three groups of digits, or <<>> when there is no match
rgb_match(s) ==
    LET open == IF Prefix(s, 3) # <<"r", "g", "b">> THEN 0
                ELSE IF At(s, 4) = "a" /\ At(s, 5) = "(" THEN 5
                ELSE IF At(s, 4) = "(" THEN 4
                ELSE 0
        e1 == DigitsEnd(s, open + 1)
        b2 == SpacesEnd(s, e1 + 1)
        e2 == DigitsEnd(s, b2)
        b3 == SpacesEnd(s, e2 + 1)
        e3 == DigitsEnd(s, b3)
        ba == SpacesEnd(s, e3 + 1)
        ea == AlphaEnd(s, ba)
    IN  IF /\ open # 0
           /\ e1 > open + 1 /\ At(s, e1) = ","
           /\ e2 > b2 /\ At(s, e2) = ","
           /\ e3 > b3
           /\ \/ At(s, e3) = ")"
              \/ At(s, e3) = "," /\ ea > ba /\ At(s, ea) = ")"
        THEN << SubSeq(s, open + 1, e1 - 1), SubSeq(s, b2, e2 - 1),
                SubSeq(s, b3, e3 - 1) >>
        ELSE <<>>

\* int(c, 16) of one hexadecimal digit
HexVal(c) ==
    CASE IsDigit(c)          -> DigitVal(c)
      [] c \in {"a", "A"}    -> 10
      [] c \in {"b", "B"}    -> 11
      [] c \in {"c", "C"}    -> 12
      [] c \in {"d", "D"}    -> 13
      [] c \in {"e", "E"}    -> 14
      [] c \in {"f", "F"}    -> 15

\* re.match(r'#([a-f\d]{6})', s, re.I)
hex_match(s) ==
    /\ Len(s) >= 7
    /\ s[1] = "#"
    /\ \A i \in 2..7 : IsHex(s[i])

\* the dict {'r': r / 255, 'g': g / 255, 'b': b / 255}, each value held as
\* its numerator over 255
Rgb(r, g, b) == [kind |-> "rgb", r |-> r, g |-> g, b |-> b]

\* WebsiteCapture.parse_color(color_str)
parse_color(color_str) ==
    IF \/ color_str = <<>>
       \/ color_str = <<"r","g","b","a","(","0",","," ","0",","," ","0",","," ","0",")">>
    THEN None
    ELSE IF rgb_match(color_str) # <<>>
    THEN Rgb(NatOf(rgb_match(color_str)[1]), NatOf(rgb_match(color_str)[2]),
             NatOf(rgb_match(color_str)[3]))
    ELSE IF hex_match(color_str)
    THEN Rgb(HexVal(color_str[2]) * 16 + HexVal(color_str[3]),
             HexVal(color_str[4]) * 16 + HexVal(color_str[5]),
             HexVal(color_str[6]) * 16 + HexVal(color_str[7]))
    ELSE None

\* colours in functional notation: rgb or rgba, three channels, the
\* separator between the arguments and the alpha (<<>>: none)
ColorForms ==
    { [ func |-> f, rgb |-> t, sep |-> sep, alpha |-> a ] :
        <<f, t, sep, a>> \in
            { <<"r","g","b">>, <<"r","g","b","a">> }
              \X { << <<"0">>, <<"0">>, <<"0">> >>,
                   << <<"1","0">>, <<"2","0">>, <<"3","0">> >>,
                   << <<"2","5","5">>, <<"0">>, <<"1","2","8">> >> }
              \X { <<",">>, <<",", " ">>, <<" ", ",">> }
              \X { <<>>, <<"0">>, <<"0", ".", "4">>, <<"1">> } }

\* a colour of ColorForms as it is written
color_text(c) ==
    c.func \o <<"(">> \o c.rgb[1] \o c.sep \o c.rgb[2] \o c.sep \o c.rgb[3]
        \o (IF c.alpha = <<>> THEN <<>> ELSE c.sep \o c.alpha) \o <<")">>

\* hexadecimal colours and words
ColorWords ==
    { <<"#","f","f","0","0","0","0">>, <<"#","F","F","0","0","0","0">>,
      <<"#","0","a","B","c","9","F">>, <<"#","f","f","f">>,
      <<"#","1","2","3","4","5">>, <<"#","1","2","3","4","5","6","7">>,
      <<"#","g","g","0","0","0","0">>, <<"f","f","0","0","0","0">>,
      <<"t","r","a","n","s","p","a","r","e","n","t">>,
      <<"t","r","a","n","s","p","a","r","e","n","t","-","i","s","h"," ",
        "g","a","r","b","a","g","e">>,
      <<"r","e","d">>, <<"r","g","b","(",")">>,
      <<"r","g","b","(","1",",","2",")">> }

Colors == { color_text(c) : c \in ColorForms } \cup ColorWords

\* FONT_MAPPING (line 34-54), the keys as texts
FONT_MAPPING(font) ==
    CASE font = <<"A","r","i","a","l">> -> "Arial"
      [] font = <<"H","e","l","v","e","t","i","c","a">> -> "Arial"
      [] font = <<"T","i","m","e","s">> -> "Times New Roman"
      [] font = <<"G","e","o","r","g","i","a">> -> "Georgia"
      [] font = <<"V","e","r","d","a","n","a">> -> "Verdana"
      [] font = <<"C","o","u","r","i","e","r">> -> "Courier New"
      [] font = <<"I","m","p","a","c","t">> -> "Impact"
      [] font = <<"C","o","m","i","c"," ","S","a","n","s"," ","M","S">> -> "Comic Sans MS"
      [] font = <<"T","r","e","b","u","c","h","e","t"," ","M","S">> -> "Trebuchet MS"
      [] font = <<"A","r","i","a","l"," ","B","l","a","c","k">> -> "Arial Black"
      [] font = <<"P","a","l","a","t","i","n","o">> -> "Palatino"
      [] font = <<"G","a","r","a","m","o","n","d">> -> "Garamond"
      [] font = <<"B","o","o","k","m","a","n">> -> "Bookman"
      [] font = <<"T","a","h","o","m","a">> -> "Tahoma"
      [] font = <<"s","a","n","s","-","s","e","r","i","f">> -> "Inter"
      [] font = <<"s","e","r","i","f">> -> "Times New Roman"
      [] font = <<"m","o","n","o","s","p","a","c","e">> -> "Courier New"
      [] font = <<"c","u","r","s","i","v","e">> -> "Comic Sans MS"
      [] font = <<"f","a","n","t","a","s","y">> -> "Impact"

FONT_KEYS ==
    { <<"A","r","i","a","l">>,
      <<"H","e","l","v","e","t","i","c","a">>,
      <<"T","i","m","e","s">>,
      <<"G","e","o","r","g","i","a">>,
      <<"V","e","r","d","a","n","a">>,
      <<"C","o","u","r","i","e","r">>,
      <<"I","m","p","a","c","t">>,
      <<"C","o","m","i","c"," ","S","a","n","s"," ","M","S">>,
      <<"T","r","e","b","u","c","h","e","t"," ","M","S">>,
      <<"A","r","i","a","l"," ","B","l","a","c","k">>,
      <<"P","a","l","a","t","i","n","o">>,
      <<"G","a","r","a","m","o","n","d">>,
      <<"B","o","o","k","m","a","n">>,
      <<"T","a","h","o","m","a">>,
      <<"s","a","n","s","-","s","e","r","i","f">>,
      <<"s","e","r","i","f">>,
      <<"m","o","n","o","s","p","a","c","e">>,
      <<"c","u","r","s","i","v","e">>,
      <<"f","a","n","t","a","s","y">> }

RECURSIVE split_comma(_)
\* web_font.split(','): the parts between the commas, at least one
split_comma(s) ==
    LET commas == { i \in DOMAIN s : s[i] = "," } IN
    IF commas = {} THEN <<s>>
    ELSE LET e == CHOOSE i \in commas : \A j \in commas : i <= j IN
         <<SubSeq(s, 1, e - 1)>> \o split_comma(SubSeq(s, e + 1, Len(s)))

RECURSIVE strip_quotes(_)
\* f.strip('"\''): quote characters taken off both ends
strip_quotes(f) ==
    IF f # <<>> /\ f[1] \in {"\"", "'"} THEN strip_quotes(Tail(f))
    ELSE IF f # <<>> /\ f[Len(f)] \in {"\"", "'"}
    THEN strip_quotes(SubSeq(f, 1, Len(f) - 1))
    ELSE f

RECURSIVE first_mapped(_)
\* the loop of line 621-623 over font_families
first_mapped(font_families) ==
    IF font_families = <<>> THEN "Inter"
    ELSE IF strip_quotes(strip(font_families[1])) \in FONT_KEYS
    THEN FONT_MAPPING(strip_quotes(strip(font_families[1])))
    ELSE first_mapped(Tail(font_families))

\* a slip of line 621: the last candidate that is a key wins
RECURSIVE last_mapped(_)
last_mapped(font_families) ==
    IF font_families = <<>> THEN "Inter"
    ELSE IF strip_quotes(strip(font_families[Len(font_families)])) \in FONT_KEYS
    THEN FONT_MAPPING(strip_quotes(strip(font_families[Len(font_families)])))
    ELSE last_mapped(SubSeq(font_families, 1, Len(font_families) - 1))

\* map_font_to_figma with the slip
map_font_to_figma_last(web_font) == last_mapped(split_comma(web_font))

\* WebsiteCapture.map_font_to_figma(web_font)
map_font_to_figma(web_font) == first_mapped(split_comma(web_font))

RECURSIVE figma_fonts(_, _)
\* post_process_data, line 598-604: mapped_fonts after the loop over
\* data.get('fonts', [])
figma_fonts(fonts, mapped_fonts) ==
    IF fonts = <<>> THEN mapped_fonts
    ELSE figma_fonts(Tail(fonts),
                     IF map_font_to_figma(fonts[1]) \in Range(mapped_fonts)
                     THEN mapped_fonts
                     ELSE Append(mapped_fonts, map_font_to_figma(fonts[1])))

\* the candidates of a font-family value: a family name, bare or quoted,
\* with or without a blank before it
FontNames ==
    { <<"H","e","l","v","e","t","i","c","a">>,
      <<"s","a","n","s","-","s","e","r","i","f">>,
      <<"R","o","b","o","t","o">>,
      <<"A","r","i","a","l">>,
      <<"C","o","m","i","c"," ","S","a","n","s"," ","M","S">> }

Candidates ==
    { [name |-> n, quote |-> q, pad |-> p] :
        <<n, q, p>> \in FontNames \X { <<>>, <<"\"">>, <<"'">> } \X { <<>>, <<" ">> } }

candidate_text(c) == c.pad \o c.quote \o c.name \o c.quote

\* font-family values of one or two candidates
FontForms ==
    { <<c>> : c \in Candidates } \cup { <<c, d>> : <<c, d>> \in Candidates \X Candidates }

font_text(form) ==
    IF Len(form) = 1 THEN candidate_text(form[1])
    ELSE candidate_text(form[1]) \o <<",">> \o candidate_text(form[2])

MaxFonts == 3

\* the fonts lists post_process_data is given
FontLists ==
    SeqsUpTo({ <<"H","e","l","v","e","t","i","c","a",","," ","s","a","n","s","-","s","e","r","i","f">>,
               <<"A","r","i","a","l">>,
               <<"R","o","b","o","t","o">>,
               <<"'","C","o","m","i","c"," ","S","a","n","s"," ","M","S","'",","," ","c","u","r","s","i","v","e">>,
               <<"s","a","n","s","-","s","e","r","i","f">>,
               <<"G","e","o","r","g","i","a",","," ","s","e","r","i","f">> },
             MaxFonts)

InitParse ==
    /\ request \in
          { [endpoint |-> "none", call |-> "parse", arg |-> value] :
               value \in Lengths \cup Colors }
          \cup { [endpoint |-> "none", call |-> "map_font_to_figma",
                  arg |-> font_text(form)] : form \in FontForms }
          \cup { [endpoint |-> "none", call |-> "post_process_data",
                  data |-> [fonts |-> fonts]] : fonts \in FontLists }
    /\ results = <<>>
    /\ pc = "none"
    /\ idx = 0
    /\ response = [status |-> 0]
    /\ fetchLog = <<>>
    /\ doc = <<>>
    /\ viewport_config = VIEWPORTS.desktop
    /\ todo = <<>>
    /\ elements = <<>>
    /\ result = [kind |-> "none"]
    /\ fate = <<>>
    /\ depthStop = FALSE
    /\ countStop = FALSE
    /\ captures = <<>>

Parsed(parser) == \E i \in DOMAIN results : results[i].name = parser

\* WebsiteCapture.parse_pixel_value(value)
parse_pixel_value_call ==
    /\ request.call = "parse"
    /\ ~Parsed("parse_pixel_value")
    /\ results' = store(results, "parse_pixel_value",
                        parse_pixel_value(request.arg))
    /\ UNCHANGED <<request, pc, idx, response, fetchLog, walkVars, captures>>

\* parse_css_value(value) of the first server
parse_css_value_call ==
    /\ request.call = "parse"
    /\ ~Parsed("parse_css_value")
    /\ results' = store(results, "parse_css_value",
                        parse_css_value(request.arg))
    /\ UNCHANGED <<request, pc, idx, response, fetchLog, walkVars, captures>>

\* WebsiteCapture.parse_color(color_str)
parse_color_call ==
    /\ request.call = "parse"
    /\ ~Parsed("parse_color")
    /\ results' = store(results, "parse_color", parse_color(request.arg))
    /\ UNCHANGED <<request, pc, idx, response, fetchLog, walkVars, captures>>

\* WebsiteCapture.map_font_to_figma(web_font)
map_font_to_figma_call ==
    /\ request.call = "map_font_to_figma"
    /\ ~Parsed("map_font_to_figma")
    /\ results' = store(results, "map_font_to_figma",
                        map_font_to_figma(request.arg))
    /\ UNCHANGED <<request, pc, idx, response, fetchLog, walkVars, captures>>

\* post_process_data(data): data['figma_fonts'] = mapped_fonts
post_process_data_call ==
    /\ request.call = "post_process_data"
    /\ ~Parsed("figma_fonts")
    /\ results' = store(results, "figma_fonts",
                        figma_fonts(get(request.data, "fonts", <<>>), <<>>))
    /\ UNCHANGED <<request, pc, idx, response, fetchLog, walkVars, captures>>

NextParse ==
    \/ parse_pixel_value_call
    \/ parse_css_value_call
    \/ parse_color_call
    \/ map_font_to_figma_call
    \/ post_process_data_call

SpecParse == InitParse /\ [][NextParse]_vars

\* the first decimal number of s with its sign: minus the number when a "-"
\* stands right before its first digit; 0 when s has no digit
FirstSignedNumber(s) ==
    LET digits == { i \in DOMAIN s : IsDigit(s[i]) } IN
    IF digits = {} THEN 0
    ELSE LET i == CHOOSE x \in digits : \A y \in digits : x <= y IN
         IF i > 1 /\ s[i - 1] = "-" THEN 0 - NumberValue(s, i)
         ELSE NumberValue(s, i)

\* C20: parse_pixel_value and parse_css_value return the first signed decimal
\* number of the string: n for "<n>px" and "<n>em", 0 for "", "auto" and
\* "none", and the negative number for a number with a leading minus
\* ("-3.5px" gives -3.5).
C20_ParseLength ==
    \A i \in DOMAIN results :
        results[i].name \in {"parse_pixel_value", "parse_css_value"} =>
            results[i].value = FirstSignedNumber(request.arg)

\* the part of C20 that is about the magnitude: both parsers return the
\* magnitude of the first decimal number, or 0
C20_ParseLengthMagnitude ==
    \A i \in DOMAIN results :
        results[i].name \in {"parse_pixel_value", "parse_css_value"} =>
        results[i].value \in { FirstSignedNumber(request.arg),
                               0 - FirstSignedNumber(request.arg) }

\* the colours of ColorForms as CSS writes them: rgb(r,g,b) and
\* rgba(r,g,b,a), the arguments separated by "," or ", "
Written(c) ==
    /\ c.sep \in { <<",">>, <<",", " ">> }
    /\ (c.func = <<"r","g","b">>) <=> (c.alpha = <<>>)

FullyTransparent(c) ==
    /\ c.func = <<"r","g","b","a">>
    /\ c.rgb = << <<"0">>, <<"0">>, <<"0">> >>
    /\ c.alpha = <<"0">>

\* what the claim expects of parse_color for the text s and the result v
ParseColorExpected(s, v) ==
    /\ s \in { <<>>, <<"t","r","a","n","s","p","a","r","e","n","t">>,
               <<"t","r","a","n","s","p","a","r","e","n","t","-","i","s","h",
                 " ","g","a","r","b","a","g","e">>,
               <<"#","g","g","0","0","0","0">> } => v = None
    /\ \A c \in ColorForms :
          (s = color_text(c) /\ Written(c)) =>
              v = IF FullyTransparent(c) THEN None
                  ELSE Rgb(NatOf(c.rgb[1]), NatOf(c.rgb[2]), NatOf(c.rgb[3]))
    /\ s \in { <<"#","f","f","0","0","0","0">>,
               <<"#","F","F","0","0","0","0">> } => v = Rgb(255, 0, 0)
    /\ s = <<"#","0","a","B","c","9","F">> => v = Rgb(10, 188, 159)

\* C21: parse_color returns None for "", "transparent", unparseable text and
\* the fully transparent rgba(0,0,0,0), and the triple r/255, g/255, b/255
\* for rgb(r,g,b), for rgba(r,g,b,a) whatever the alpha, and for #RRGGBB in
\* either letter case.
C21_ParseColor ==
    \A i \in DOMAIN results :
        results[i].name = "parse_color" =>
            ParseColorExpected(request.arg, results[i].value)

\* C21 without the fully transparent colour written with no blanks
C21_ParseColorButCompactTransparent ==
    \A i \in DOMAIN results :
        (results[i].name = "parse_color"
            /\ request.arg # <<"r","g","b","a","(","0",",","0",",","0",",","0",")">>) =>
            ParseColorExpected(request.arg, results[i].value)

\* the design-tool font the claim names for a font-family value: the table
\* entry of its first candidate whose name is a key, else Inter
RECURSIVE FirstKnown(_)
FirstKnown(form) ==
    IF form = <<>> THEN "Inter"
    ELSE IF form[1].name \in FONT_KEYS THEN FONT_MAPPING(form[1].name)
    ELSE FirstKnown(Tail(form))

\* the first place of a font-family value in fonts that maps to font
FirstUse(fonts, font) ==
    CHOOSE i \in DOMAIN fonts :
        /\ map_font_to_figma(fonts[i]) = font
        /\ \A j \in 1..(i - 1) : map_font_to_figma(fonts[j]) # font

\* C22: map_font_to_figma gives the table entry of the first candidate
\* (blanks and quotes around it taken off) that is a key of FONT_MAPPING,
\* and Inter when no candidate is one; the figma_fonts list of
\* post_process_data has every mapped font of the fonts list once, in the
\* order of first use.
C22_FontMapping ==
    \A i \in DOMAIN results :
        /\ results[i].name = "map_font_to_figma" =>
              \A form \in FontForms :
                  request.arg = font_text(form) =>
                      results[i].value = FirstKnown(form)
        /\ results[i].name = "figma_fonts" =>
              LET fonts == request.data.fonts
                  out   == results[i].value
              IN  /\ \A a, b \in DOMAIN out : a # b => out[a] # out[b]
                  /\ Range(out) = { map_font_to_figma(fonts[k]) : k \in DOMAIN fonts }
                  /\ \A a, b \in DOMAIN out :
                        a < b => FirstUse(fonts, out[a]) < FirstUse(fonts, out[b])

\* "Helvetica, sans-serif" was mapped to Arial, the entry of Helvetica, and
\* not to Inter, the entry of sans-serif
C22_Witness ==
    /\ request.call = "map_font_to_figma"
    /\ request.arg = <<"H","e","l","v","e","t","i","c","a",","," ","s","a","n","s","-","s","e","r","i","f">>
    /\ \E i \in DOMAIN results :
          results[i].name = "map_font_to_figma" /\ results[i].value = "Arial"
=============================================================================
